---- MODULE Spec2Model ----
(***************************************************************************)
(* Agentic text-to-SQL service (backend/services/agentic_text2sql_service, *)
(* sql_validator, query_executor, agent_tools) as a state machine.         *)
(*                                                                         *)
(* One behaviour is one call of generate_sql_with_agent: Init is the       *)
(* initial AgentState the call builds, every workflow node is one action   *)
(* (the node's update merged into the state, followed by the routing of    *)
(* the edge that leaves it), and Return is the code after workflow.invoke  *)
(* (history store and _format_response).                                   *)
(*                                                                         *)
(* SQL text is a sequence of tokens (keywords in upper case, identifiers   *)
(* and literals as written); the string searches and regular expressions   *)
(* of the code are evaluated on the tokens.                                *)
(***************************************************************************)
EXTENDS Integers, Sequences, FiniteSets, TLC

(* ------------------------------------------------------------------ *)
(* Bounds of the model                                                  *)
(* ------------------------------------------------------------------ *)
MaxBudget == 7
MaxRows == 1
MaxPriorTurns == 1

(* Program constants *)
HistoryCap == 10

(* ------------------------------------------------------------------ *)
(* Optional values: Python None / a value                               *)
(* ------------------------------------------------------------------ *)
None == << >>
Some(v) == << v >>
Val(o) == o[1]

(* ------------------------------------------------------------------ *)
(* Token-level string helpers                                           *)
(* ------------------------------------------------------------------ *)
\* str.find of a single token: first index, 0 when absent
FindTok(s, t) ==
  IF \E i \in 1..Len(s) : s[i] = t
  THEN CHOOSE i \in 1..Len(s) : s[i] = t /\ \A j \in 1..(i-1) : s[j] # t
  ELSE 0

CountTok(s, t) == Cardinality({i \in 1..Len(s) : s[i] = t})

Slice(s, a, b) == IF a > b THEN << >> ELSE SubSeq(s, a, b)

RECURSIVE DropToks(_, _)
DropToks(s, drop) ==
  IF s = << >> THEN << >>
  ELSE IF Head(s) \in drop THEN DropToks(Tail(s), drop)
       ELSE << Head(s) >> \o DropToks(Tail(s), drop)

\* decimal text t starts with decimal text p (substring matching of a literal)
TextStartsWith(t, p) ==
  \/ t = p
  \/ << t, p >> \in { << "12", "1" >>, << "21", "2" >> }

\* the literal N written in quotes, 'N'
QuotedLiteral(id) ==
  CASE id = "1" -> "'1'"
    [] id = "2" -> "'2'"
    [] OTHER -> "'?'"

NumberTokens == { "1", "2", "12", "21" }

(* ------------------------------------------------------------------ *)
(* _extract_sql                                                         *)
(* ------------------------------------------------------------------ *)
\* the opening fence with its language tag, and the bare fence (three backticks)
FenceSql == "<fence-sql>"
Fence == "<fence>"
ChartMeta == "{chart_metadata}"
StartKeywords == { "SELECT", "WITH", "INSERT", "UPDATE", "DELETE" }

\* a fence tagged sql, or a bare fence directly followed by select, occurs in sql.lower()
HasSqlBlock(r) ==
  \/ FindTok(r, FenceSql) # 0
  \/ \E i \in 1..(Len(r) - 1) : r[i] = Fence /\ r[i+1] = "SELECT"

SqlBlockStart(r) ==
  IF FindTok(r, FenceSql) # 0 THEN FindTok(r, FenceSql)
  ELSE CHOOSE i \in 1..(Len(r) - 1) :
         /\ r[i] = Fence /\ r[i+1] = "SELECT"
         /\ \A j \in 1..(i-1) : ~(r[j] = Fence /\ r[j+1] = "SELECT")

\* the text between the opening fence and the closing fence (or the end)
ExtractBlock(r) ==
  LET st == SqlBlockStart(r)
      cl == IF \E i \in (st+1)..Len(r) : r[i] \in { Fence, FenceSql }
            THEN CHOOSE i \in (st+1)..Len(r) :
                   r[i] \in { Fence, FenceSql } /\ \A j \in (st+1)..(i-1) : r[j] \notin { Fence, FenceSql }
            ELSE 0
  IN IF cl # 0 THEN Slice(r, st + 1, cl - 1) ELSE Slice(r, st + 1, Len(r))

StripFences(r) ==
  IF HasSqlBlock(r) THEN ExtractBlock(r)
  ELSE IF Len(r) > 0 /\ r[1] = Fence THEN DropToks(r, { Fence, FenceSql })
  ELSE r

StripChartMeta(s) ==
  LET p == FindTok(s, ChartMeta)
  IN IF p # 0 THEN Slice(s, 1, p - 1) ELSE s

FromSelect(s) ==
  IF Len(s) > 0 /\ s[1] \in StartKeywords THEN s
  ELSE IF FindTok(s, "SELECT") # 0 THEN Slice(s, FindTok(s, "SELECT"), Len(s))
  ELSE s

extract_sql(r) == FromSelect(StripChartMeta(StripFences(r)))

(* ------------------------------------------------------------------ *)
(* _ensure_corp_id_filter                                               *)
(* ------------------------------------------------------------------ *)
\* any of "corp_id = N", "corp_id=N", "corp_id = 'N'" occurs in sql.lower()
HasCorpId(sql, id) ==
  \E i \in 1..(Len(sql) - 2) :
    /\ sql[i] = "corp_id"
    /\ sql[i+1] = "="
    /\ (TextStartsWith(sql[i+2], id) \/ sql[i+2] = QuotedLiteral(id))

InsertionKeywords == { "GROUP BY", "ORDER BY", "LIMIT", "HAVING" }

InsertionPos(sql) ==
  IF \E i \in 1..Len(sql) : sql[i] \in InsertionKeywords
  THEN CHOOSE i \in 1..Len(sql) :
         sql[i] \in InsertionKeywords /\ \A j \in 1..(i-1) : sql[j] \notin InsertionKeywords
  ELSE Len(sql) + 1

ensure_corp_id_filter(sql, id) ==
  IF HasCorpId(sql, id) THEN sql
  ELSE IF FindTok(sql, "WHERE") # 0
  THEN LET w == FindTok(sql, "WHERE")
       IN Slice(sql, 1, w) \o << "corp_id", "=", id, "AND" >> \o Slice(sql, w + 1, Len(sql))
  ELSE LET p == InsertionPos(sql)
       IN Slice(sql, 1, p - 1) \o << "WHERE", "corp_id", "=", id >> \o Slice(sql, p, Len(sql))

(* ------------------------------------------------------------------ *)
(* sql_validator.validate_sql_for_client_isolation                      *)
(* ------------------------------------------------------------------ *)
\* dataset configurations: the client_isolation block of a dataset
Datasets ==
  { [ id |-> "sales",     method |-> "row-level",       filter_field |-> "client_id" ],
    [ id |-> "em_market", method |-> "brand-hierarchy", filter_field |-> "corp_id" ] }

\* \b<field>\s*=\s*<id>\b matches at position j
FilterEqAt(sql, j, field, id) ==
  /\ j + 2 <= Len(sql)
  /\ sql[j] = field /\ sql[j+1] = "=" /\ sql[j+2] = id

\* \b<kw>\s+.*?\b<field>\s*=\s*<id>\b
AfterKeyword(sql, kw, field, id) ==
  \E i \in 1..Len(sql) : \E j \in (i+1)..Len(sql) :
    sql[i] = kw /\ FilterEqAt(sql, j, field, id)

\* \b<field>\s*=\s*<id>\b.*?\bWHERE\b
BeforeWhere(sql, field, id) ==
  \E j \in 1..Len(sql) : \E k \in (j+3)..Len(sql) :
    FilterEqAt(sql, j, field, id) /\ sql[k] = "WHERE"

Anywhere(sql, field, id) ==
  \E j \in 1..Len(sql) : FilterEqAt(sql, j, field, id)

filter_found(sql, id, cfg) ==
  IF cfg.method = "brand-hierarchy"
  THEN \/ AfterKeyword(sql, "WHERE", cfg.filter_field, id)
       \/ AfterKeyword(sql, "AND", cfg.filter_field, id)
       \/ Anywhere(sql, cfg.filter_field, id)
  ELSE \/ AfterKeyword(sql, "WHERE", cfg.filter_field, id)
       \/ AfterKeyword(sql, "AND", cfg.filter_field, id)
       \/ BeforeWhere(sql, cfg.filter_field, id)

\* re.findall(<field>\s*=\s*(\d+)): the set of the ids compared with the field
all_filter_ids(sql, field) ==
  { sql[j+2] : j \in { i \in 1..(Len(sql) - 2) :
                        sql[i] = field /\ sql[i+1] = "=" /\ sql[i+2] \in NumberTokens } }

\* the first of them, all_filter_ids[0]
first_filter_id(sql, field) ==
  LET js == { i \in 1..(Len(sql) - 2) :
                sql[i] = field /\ sql[i+1] = "=" /\ sql[i+2] \in NumberTokens }
      j == CHOOSE i \in js : \A k \in js : i <= k
  IN sql[j+2]

\* <field>\s+IN\s*\([^)]+\)
in_clause_matches(sql, field) ==
  \E i \in 1..(Len(sql) - 4) :
    /\ sql[i] = field /\ sql[i+1] = "IN" /\ sql[i+2] = "(" /\ sql[i+3] # ")"
    /\ \E k \in (i+4)..Len(sql) : sql[k] = ")"

single_client_ok(sql, id, cfg) ==
  IF in_clause_matches(sql, cfg.filter_field) THEN FALSE
  ELSE IF Cardinality(all_filter_ids(sql, cfg.filter_field)) > 1 THEN FALSE
  ELSE IF all_filter_ids(sql, cfg.filter_field) # {}
          /\ first_filter_id(sql, cfg.filter_field) # id THEN FALSE
  ELSE TRUE

destructive_keywords ==
  { "DROP", "DELETE", "UPDATE", "INSERT", "ALTER", "TRUNCATE", "CREATE", "GRANT", "REVOKE" }

\* sql_query.upper() on one word of the text
upper(t) ==
  CASE t = "delete" -> "DELETE"
    [] t = "Update" -> "UPDATE"
    [] t = "last_update" -> "LAST_UPDATE"
    [] t = "created_at" -> "CREATED_AT"
    [] OTHER -> t

\* mutant: the keywords are searched in the text as written
found_destructive_asWritten(sql) == \E i \in 1..Len(sql) : sql[i] \in destructive_keywords

\* re.search(\b<keyword>\b, sql_upper) for some keyword
found_destructive(sql) == \E i \in 1..Len(sql) : upper(sql[i]) \in destructive_keywords

validation_warnings(sql) ==
  (IF CountTok(sql, "WHERE") > 1 THEN { "MULTIPLE_WHERE" } ELSE {})
  \cup (IF CountTok(sql, "SELECT") > 1 THEN { "SUBQUERY" } ELSE {})
  \cup (IF CountTok(sql, "UNION") > 0 THEN { "UNION" } ELSE {})

Status(ok) == IF ok THEN "PASS" ELSE "FAIL"

\* mutant: the flag is set to the outcome of the latest check
passed_after_latest(passed, ok) == ok

\* passed = False in the failing branch of a check; untouched otherwise
passed_after(passed, ok) == IF ok THEN passed ELSE FALSE

\* ValidationResult.to_dict()
validate_sql_for_client_isolation(sql, id, cfg) ==
  LET c1 == filter_found(sql, id, cfg)
      c2 == single_client_ok(sql, id, cfg)
      c3 == ~found_destructive(sql)
      passed1 == passed_after(TRUE, c1)
      passed2 == passed_after(passed1, c2)
      passed3 == passed_after(passed2, c3)
  IN [ passed   |-> passed3,
       checks   |-> << [ name |-> "Client ID Filter", status |-> Status(c1) ],
                       [ name |-> "Single Client",    status |-> Status(c2) ],
                       [ name |-> "Read-Only",        status |-> Status(c3) ] >>,
       warnings |-> validation_warnings(sql) ]

\* get_validation_summary
get_validation_summary(vr) ==
  LET failed == Cardinality({ k \in 1..Len(vr.checks) : vr.checks[k].status = "FAIL" })
  IN [ passed |-> vr.passed, total_checks |-> Len(vr.checks),
       passed_checks |-> Len(vr.checks) - failed, failed_checks |-> failed,
       has_warnings |-> vr.warnings # {} ]

\* [c for c in checks if c.status == "FAIL"], by name
failed_checks(sv) ==
  { sv.checks[i].name : i \in { k \in 1..Len(sv.checks) : sv.checks[k].status = "FAIL" } }

(* ------------------------------------------------------------------ *)
(* Inputs of a run and outcomes of the collaborators                    *)
(* ------------------------------------------------------------------ *)
Sessions == { "s1" }
ClientIds == { "1", "2" }

\* An utterance as the signals the detector reads off its text:
\*   clarified   - contains "Additional information:" / "Additional context:"
\*   short       - len(query.split()) <= 4
\*   entity, metric, action, vague, dim, grouping, trend, year, timekw,
\*   performance, perf_metric, topbest, metric_specific - the any(...) tests
Clear ==
  [ text |-> "show total value", clarified |-> FALSE, short |-> TRUE, entity |-> FALSE,
    metric |-> TRUE, action |-> TRUE, vague |-> FALSE, dim |-> FALSE, grouping |-> FALSE,
    trend |-> FALSE, year |-> FALSE, timekw |-> FALSE, performance |-> FALSE,
    perf_metric |-> FALSE, topbest |-> FALSE, metric_specific |-> TRUE ]

Utterances ==
  { Clear,
    [ Clear EXCEPT !.text = "trend", !.metric = FALSE, !.action = FALSE,
                   !.trend = TRUE, !.metric_specific = FALSE ],
    [ Clear EXCEPT !.text = "trend. Additional information: total value", !.clarified = TRUE,
                   !.short = FALSE, !.trend = TRUE, !.action = FALSE ],
    [ Clear EXCEPT !.text = "", !.metric = FALSE, !.action = FALSE,
                   !.metric_specific = FALSE ] }

\* raw answers of the text-generation collaborator to the SQL prompt
RawResponses ==
  { << FenceSql, "SELECT", "*", "FROM", "t", "WHERE", "client_id", "=", "1", Fence, ChartMeta >>,
    << Fence, "SELECT", "*", "FROM", "t", "GROUP BY", "x", Fence >>,
    << "Sure", "DELETE", "FROM", "t", "WHERE", "corp_id", "=", "1" >> }

\* what QueryExecutor.execute_query raises, by the cause reported by the database
ExecFailures ==
  { [ cause |-> "syntax error",   message |-> "SQL syntax error. Please try rephrasing your query." ],
    [ cause |-> "other",          message |-> "Query execution failed: database is locked" ] }

CriticalCauses == { "no such table", "no such column", "syntax error" }

\* what QueryExecutor.execute_query returns for n rows
ExecResult(n) ==
  [ keys |-> { "results", "columns", "row_count", "execution_time" },
    results |-> n, row_count |-> n ]

\* the critical keywords of _reflect_node that occur in msg.lower()
critical_keywords_in(msg) ==
  CASE msg = "SQL syntax error. Please try rephrasing your query." -> { "syntax error" }
    [] msg = "no such table: t" -> { "no such table" }
    [] OTHER -> {}

(* ------------------------------------------------------------------ *)
(* _detect_clarification_node: the question list                        *)
(* ------------------------------------------------------------------ *)
Q_details == "What would you like to know? Please provide more details."
Q_examples == "Examples: 'Top products by revenue in South', 'Sales in Q4', etc."
Q_data == "What data would you like to see?"
Q_data_long == "What data would you like to see? (products, sales, customers?)"
Q_metric == "What metric are you interested in?"
Q_metric_long == "What metric are you interested in? (revenue, quantity, count?)"
Q_period == "Which time period?"
Q_which_metric == "Which metric (revenue, quantity, growth)?"
Q_measure == "By what measure? (e.g., revenue, units sold, market size, growth rate)"

InSeq(x, q) == \E i \in 1..Len(q) : q[i] = x

VagueQuestions(u, hist) ==
  IF hist = 0 /\ u.vague /\ u.short /\ ~(u.entity /\ u.metric /\ u.action)
  THEN << Q_details, Q_examples >> ELSE << >>

DimensionQuestions(u, hist) ==
  IF hist = 0 /\ u.dim /\ ~(u.entity /\ u.metric)
  THEN << Q_data, Q_metric_long >> ELSE << >>

GroupingQuestions(u, hist, qs) ==
  IF u.grouping /\ hist = 0 /\ (~u.entity \/ ~u.metric)
  THEN (IF ~InSeq(Q_data, qs) THEN << Q_data_long >> ELSE << >>)
       \o (IF ~InSeq(Q_metric, qs) THEN << Q_metric_long >> ELSE << >>)
  ELSE << >>

\* mutant: any one of action, metric or entity makes the query complete
TrendQuestions_anyComplete(u) ==
  IF u.trend /\ ~(u.year \/ u.timekw) /\ ~(u.action \/ u.metric \/ u.entity)
  THEN << Q_period >> ELSE << >>

TrendQuestions(u) ==
  IF u.trend /\ ~(u.year \/ u.timekw) /\ ~(u.action /\ (u.metric \/ u.entity))
  THEN << Q_period >> ELSE << >>

PerformanceQuestions(u) ==
  IF u.performance /\ ~u.perf_metric THEN << Q_which_metric >> ELSE << >>

TopQuestions(u) ==
  IF u.topbest /\ ~(u.entity /\ u.metric_specific) THEN << Q_measure >> ELSE << >>

detect_questions(u, hist) ==
  LET q2 == VagueQuestions(u, hist) \o DimensionQuestions(u, hist)
      q3 == q2 \o GroupingQuestions(u, hist, q2)
  IN q3 \o TrendQuestions(u) \o PerformanceQuestions(u) \o TopQuestions(u)

(* ------------------------------------------------------------------ *)
(* State                                                                *)
(* ------------------------------------------------------------------ *)
VARIABLES
  pc,             \* the workflow node about to run; "END" after the graph; "returned"
  state,          \* the AgentState of the run
  chat_sessions,  \* AgenticText2SQLService.chat_sessions: session id -> history
  response,       \* what generate_sql_with_agent returns (None until it returns)
  obs             \* observations of the run so far (not read by the program)

vars == << pc, state, chat_sessions, response, obs >>

\* a turn stored by an earlier, successful run of the session
PriorEntry ==
  [ user_query |-> Clear.text,
    sql_query |-> << "SELECT", "*", "FROM", "t", "WHERE", "corp_id", "=", "1" >> ]

PriorHistory(k) == [ i \in 1..k |-> PriorEntry ]

\* _get_chat_history: chat_sessions.get(session_id, [])
get_chat_history(sessions, sid) ==
  IF sid \in DOMAIN sessions THEN sessions[sid] ELSE << >>

\* generate_sql_with_agent: the initial AgentState
InitialState(u, resolved, sid, cid, ds, n) ==
  [ user_query |-> u, session_id |-> sid, resolved_query |-> resolved,
    client_id |-> cid, dataset |-> ds,
    iteration |-> 0, max_iterations |-> n,
    schema |-> None, sql_query |-> None,
    execution_result |-> None, validation_result |-> None,
    security_validation |-> None, explanation |-> None,
    reflection_result |-> None,
    clarification_needed |-> FALSE, clarification_questions |-> << >>,
    tool_calls |-> << >>, next_action |-> "plan", is_complete |-> FALSE,
    error |-> None, skip_clarification_check |-> u.clarified ]

InitialObs ==
  [ planPasses |-> 0, actionPasses |-> 0,
    genFailed |-> FALSE, secFailed |-> FALSE, presenceFailed |-> FALSE,
    validatedOk |-> {}, executed |-> {},
    critFailAt |-> 0, regenAfterCrit |-> FALSE,
    accepted |-> "none", redoAfterAccepted |-> FALSE,
    explain |-> "none",
    lastNode |-> "start" ]

Init ==
  \E u \in Utterances, resolved \in Utterances, sid \in Sessions, cid \in ClientIds,
     ds \in Datasets, n \in 1..MaxBudget, k \in 0..MaxPriorTurns :
    \* _expand_query_with_context returns the utterance itself when there is no
    \* history; with history the collaborator leaves it as it is or completes it
    /\ (k = 0 => resolved = u)
    /\ (k > 0 => resolved \in { u, Clear })
    \* a session is in the store once a run has added a turn to it
    /\ chat_sessions = [ s \in { x \in Sessions : x = sid /\ k > 0 } |-> PriorHistory(k) ]
    /\ state = InitialState(u, resolved, sid, cid, ds, n)
    /\ pc = "detect_clarification"
    /\ response = None
    /\ obs = InitialObs

(* ------------------------------------------------------------------ *)
(* detect_clarification and its routing                                 *)
(* ------------------------------------------------------------------ *)
\* mutant: the router ignores the flag
should_clarify_always_plan(st) == "plan"

should_clarify(st) == IF st.clarification_needed THEN "complete" ELSE "plan"

\* mutant: the detector ignores skip_clarification_check
detect_clarification_update_noSkip(st, hist) ==
  LET questions == detect_questions(st.resolved_query, hist)
  IN [ st EXCEPT !.clarification_needed = Len(questions) > 0,
                 !.clarification_questions = @ \o questions ]

detect_clarification_update(st, hist) ==
  LET questions == IF st.skip_clarification_check THEN << >>
                   ELSE detect_questions(st.resolved_query, hist)
  IN [ st EXCEPT !.clarification_needed = Len(questions) > 0,
                 !.clarification_questions = @ \o questions ]

DetectClarification ==
  /\ pc = "detect_clarification"
  /\ LET st1 == detect_clarification_update(state, Len(get_chat_history(chat_sessions, state.session_id)))
     IN /\ state' = st1
        /\ pc' = should_clarify(st1)
  /\ obs' = [ obs EXCEPT !.lastNode = "detect_clarification" ]
  /\ UNCHANGED << chat_sessions, response >>

(* ------------------------------------------------------------------ *)
(* plan and its routing                                                 *)
(* ------------------------------------------------------------------ *)
\* mutant: a Plan pass counts twice
NextIteration_twice(it) == it + 2

NextIteration(it) == it + 1

\* mutant: the guard fires one pass late
BudgetExceeded_late(it, max) == it > max + 1

\* mutant: the guard fires one pass early
BudgetExceeded_early(it, max) == it >= max

BudgetExceeded(it, max) == it > max

\* mutant: the reflect branch is tested after the explanation branch is decided
PlanDecision_noReflect(st) ==
  IF st.schema = None THEN "get_schema"
  ELSE IF st.sql_query = None THEN "generate_sql"
  ELSE IF st.execution_result = None THEN "execute_sql"
  ELSE IF st.validation_result = None THEN "validate_results"
  ELSE IF st.explanation = None /\ st.execution_result # None THEN "generate_explanation"
  ELSE IF st.reflection_result = None THEN "reflect"
  ELSE "complete"

\* mutant: the validation branch is missing from the tree
PlanDecision_noValidate(st) ==
  IF st.schema = None THEN "get_schema"
  ELSE IF st.sql_query = None THEN "generate_sql"
  ELSE IF st.execution_result = None THEN "execute_sql"
  ELSE IF st.reflection_result = None THEN "reflect"
  ELSE IF st.explanation = None /\ st.execution_result # None THEN "generate_explanation"
  ELSE "complete"

\* mutant: the explanation is asked for before the reflection and the validation
PlanDecision_explainFirst(st) ==
  IF st.schema = None THEN "get_schema"
  ELSE IF st.sql_query = None THEN "generate_sql"
  ELSE IF st.execution_result = None THEN "execute_sql"
  ELSE IF st.explanation = None /\ st.execution_result # None THEN "generate_explanation"
  ELSE IF st.validation_result = None THEN "validate_results"
  ELSE IF st.reflection_result = None THEN "reflect"
  ELSE "complete"

\* the decision tree of _plan_node
PlanDecision(st) ==
  IF st.schema = None THEN "get_schema"
  ELSE IF st.sql_query = None THEN "generate_sql"
  ELSE IF st.execution_result = None THEN "execute_sql"
  ELSE IF st.validation_result = None THEN "validate_results"
  ELSE IF st.reflection_result = None THEN "reflect"
  ELSE IF st.explanation = None /\ st.execution_result # None THEN "generate_explanation"
  ELSE "complete"

plan_node(st) ==
  LET it == NextIteration(st.iteration)
  IN IF BudgetExceeded(it, st.max_iterations)
     THEN [ st EXCEPT !.iteration = it, !.next_action = "complete", !.is_complete = TRUE ]
     ELSE [ st EXCEPT !.iteration = it, !.next_action = PlanDecision(st),
                      !.is_complete = IF PlanDecision(st) = "complete" THEN TRUE ELSE @ ]

should_execute_or_generate(st) ==
  IF st.next_action \in { "generate_sql", "reflect", "generate_explanation", "complete" }
  THEN st.next_action
  ELSE "execute_tools"

Plan ==
  /\ pc = "plan"
  /\ LET st1 == plan_node(state)
     IN /\ state' = st1
        /\ pc' = should_execute_or_generate(st1)
        /\ obs' = [ obs EXCEPT !.planPasses = @ + 1,
                               !.actionPasses = IF st1.next_action = "complete" THEN @ ELSE @ + 1,
                               !.lastNode = "plan" ]
  /\ UNCHANGED << chat_sessions, response >>

(* ------------------------------------------------------------------ *)
(* execute_tools: Tool.execute and the state update of the node         *)
(* ------------------------------------------------------------------ *)
\* Tool.execute: the envelope of a call
ToolSuccess(tool) == [ tool |-> tool, success |-> TRUE ]
ToolFailure(tool) == [ tool |-> tool, success |-> FALSE ]

ToolError(tool, msg) == Some([ kind |-> "tool", tool |-> tool, message |-> msg ])

\* _validate_results_tool
validate_results_tool(results) ==
  [ is_valid |-> TRUE,
    has_results |-> results.results > 0,
    row_count |-> results.results,
    issues |-> (IF results.results > 0 THEN << >> ELSE << "No results returned" >>)
               \o (IF "success" \in results.keys /\ ~results.success
                   THEN << "Execution error" >> ELSE << >>) ]

GetSchema ==
  /\ pc = "execute_tools"
  /\ state.next_action = "get_schema"
  /\ \E ok \in BOOLEAN :
       state' = IF ok
                THEN [ state EXCEPT !.schema = Some("schema"),
                                    !.tool_calls = Append(@, ToolSuccess("get_schema")) ]
                ELSE [ state EXCEPT !.error = ToolError("get_schema", "unable to open database file"),
                                    !.tool_calls = Append(@, ToolFailure("get_schema")) ]
  /\ pc' = "plan"
  /\ obs' = [ obs EXCEPT !.lastNode = "execute_tools" ]
  /\ UNCHANGED << chat_sessions, response >>

\* observations of an execute_sql call
ObserveExecute(o, st, kind, cause) ==
  [ o EXCEPT !.executed = @ \cup { Val(st.sql_query) },
             !.redoAfterAccepted = @ \/ (o.accepted # "none"),
             !.accepted = IF @ # "none" THEN @
                          ELSE IF kind = "empty" THEN "empty"
                          ELSE IF kind = "failure" /\ cause \notin CriticalCauses THEN "noncritical"
                          ELSE @,
             !.critFailAt = IF @ = 0 /\ kind = "failure" /\ cause \in CriticalCauses
                            THEN st.iteration ELSE @,
             !.lastNode = "execute_tools" ]

ExecuteSqlReturns ==
  /\ pc = "execute_tools"
  /\ state.next_action = "execute_sql"
  /\ \E n \in 0..MaxRows :
       /\ state' = [ state EXCEPT !.execution_result = Some(ExecResult(n)),
                                  !.tool_calls = Append(@, ToolSuccess("execute_sql")) ]
       /\ obs' = ObserveExecute(obs, state, IF n = 0 THEN "empty" ELSE "rows", "none")
  /\ pc' = "plan"
  /\ UNCHANGED << chat_sessions, response >>

ExecuteSqlRaises ==
  /\ pc = "execute_tools"
  /\ state.next_action = "execute_sql"
  /\ \E f \in ExecFailures :
       /\ state' = [ state EXCEPT !.error = ToolError("execute_sql", f.message),
                                  !.tool_calls = Append(@, ToolFailure("execute_sql")) ]
       /\ obs' = ObserveExecute(obs, state, "failure", f.cause)
  /\ pc' = "plan"
  /\ UNCHANGED << chat_sessions, response >>

ValidateResults ==
  /\ pc = "execute_tools"
  /\ state.next_action = "validate_results"
  /\ state' = [ state EXCEPT
                  !.validation_result = Some(validate_results_tool(Val(state.execution_result))),
                  !.tool_calls = Append(@, ToolSuccess("validate_results")) ]
  /\ pc' = "plan"
  /\ obs' = [ obs EXCEPT !.lastNode = "execute_tools" ]
  /\ UNCHANGED << chat_sessions, response >>

(* ------------------------------------------------------------------ *)
(* generate_sql                                                         *)
(* ------------------------------------------------------------------ *)
\* the SQL the node validates: extraction, then the corp_id safety net
\* (tabulated over the collaborator's answers)
PreparedSqlOf ==
  [ cid \in ClientIds |->
      [ raw \in RawResponses |-> ensure_corp_id_filter(extract_sql(raw), cid) ] ]

PreparedSql(st, raw) == PreparedSqlOf[st.client_id][raw]

\* _validate_sql_security on the prepared SQL of an answer (tabulated)
SecurityValidationOf ==
  [ ds \in Datasets |-> [ cid \in ClientIds |-> [ raw \in RawResponses |->
      validate_sql_for_client_isolation(PreparedSqlOf[cid][raw], cid, ds) ] ] ]

validate_sql_security(st, raw) == SecurityValidationOf[st.dataset][st.client_id][raw]

\* mutant: the node keeps the SQL whatever the validator said
generate_sql_accepts_any(sv) == TRUE

\* the node's update when the collaborator answered raw
generate_sql_accepts(sv) == sv.passed

generate_sql_update(st, raw) ==
  LET sql == PreparedSql(st, raw)
      sv == validate_sql_security(st, raw)
  IN IF ~generate_sql_accepts(sv)
     THEN [ st EXCEPT !.error = Some([ kind |-> "security", tool |-> "generate_sql",
                                       message |-> "Security validation failed" ]),
                      !.security_validation = Some(sv),
                      !.is_complete = TRUE ]
     ELSE [ st EXCEPT !.sql_query = Some(sql),
                      !.security_validation = Some(sv) ]

\* the node's update when the collaborator raised (API error or timeout)
generate_sql_failure(st) ==
  [ st EXCEPT !.error = Some([ kind |-> "generation", tool |-> "generate_sql",
                               message |-> "SQL generation failed" ]),
              !.is_complete = TRUE ]

\* the edge that leaves generate_sql
generate_sql_edge == "plan"

ObserveGenerate(o) ==
  [ o EXCEPT !.regenAfterCrit = @ \/ (o.critFailAt # 0),
             !.redoAfterAccepted = @ \/ (o.accepted # "none"),
             !.lastNode = "generate_sql" ]

GenerateSqlAnswers ==
  /\ pc = "generate_sql"
  /\ \E raw \in RawResponses :
       LET sql == PreparedSql(state, raw)
           sv == validate_sql_security(state, raw)
       IN /\ state' = generate_sql_update(state, raw)
          /\ obs' = [ ObserveGenerate(obs) EXCEPT
                        !.validatedOk = IF sv.passed THEN @ \cup { sql } ELSE @,
                        !.secFailed = @ \/ ~sv.passed,
                        !.presenceFailed = @ \/ ("Client ID Filter" \in failed_checks(sv)) ]
  /\ pc' = generate_sql_edge
  /\ UNCHANGED << chat_sessions, response >>

GenerateSqlRaises ==
  /\ pc = "generate_sql"
  /\ state' = generate_sql_failure(state)
  /\ obs' = [ ObserveGenerate(obs) EXCEPT !.genFailed = TRUE ]
  /\ pc' = generate_sql_edge
  /\ UNCHANGED << chat_sessions, response >>

(* ------------------------------------------------------------------ *)
(* reflect and its routing                                              *)
(* ------------------------------------------------------------------ *)
\* execution_result and not execution_result.get("success")
ExecutionNotSuccessful(er) ==
  er # None /\ ~("success" \in Val(er).keys /\ Val(er).success)

\* execution_result.get("error", "")
ExecutionErrorText(er) == IF "error" \in Val(er).keys THEN Val(er).error ELSE ""

reflect_node(st) ==
  LET er == st.execution_result
      failed == ExecutionNotSuccessful(er)
      msg == IF failed THEN ExecutionErrorText(er) ELSE ""
      critical == failed /\ critical_keywords_in(msg) # {}
      issues == (IF failed THEN << msg >> ELSE << >>)
                \o (IF st.validation_result # None /\ ~Val(st.validation_result).has_results
                    THEN << "Query returned no results" >> ELSE << >>)
  IN [ is_acceptable |-> ~critical, should_refine |-> critical, issues |-> issues ]

should_refine(st) ==
  IF Val(st.reflection_result).should_refine /\ st.iteration < st.max_iterations
  THEN "refine" ELSE "continue"

\* mutant: the retry also forgets the reflection
refine_reset_all(st) ==
  [ st EXCEPT !.sql_query = None, !.execution_result = None, !.validation_result = None,
              !.reflection_result = None ]

\* the assignments _should_refine makes to the state it was handed
refine_reset(st) ==
  [ st EXCEPT !.sql_query = None, !.execution_result = None, !.validation_result = None ]

Reflect ==
  /\ pc = "reflect"
  /\ LET st1 == [ state EXCEPT !.reflection_result = Some(reflect_node(state)) ]
     IN IF should_refine(st1) = "refine"
        \* whether an assignment made inside a routing function reaches the
        \* graph's state is up to the graph library: either outcome
        THEN \E kept \in BOOLEAN : state' = IF kept THEN refine_reset(st1) ELSE st1
        ELSE state' = st1
  /\ pc' = "plan"
  /\ obs' = [ obs EXCEPT !.lastNode = "reflect" ]
  /\ UNCHANGED << chat_sessions, response >>

(* ------------------------------------------------------------------ *)
(* generate_explanation, complete                                       *)
(* ------------------------------------------------------------------ *)
\* the three texts of the node; N is the row count the fallback reports
NoResultsText ==
  [ text |-> "The query returned no results. This might indicate that no data matches the specified criteria.",
    N |-> 0 ]
FallbackText(n) == [ text |-> "Found N result(s) for your query.", N |-> n ]
LlmText == [ text |-> "explanation written by the collaborator", N |-> 0 ]

\* what the text-generation collaborator does when it is called
ExplainOutcomes == { "answers", "raises" }

\* not results or not results.get("results")
EmptyResults(er) == er = None \/ Val(er).results = 0

\* mutant: no fixed text for an empty result
generate_explanation_node_noEmptyCheck(st, outcome) ==
  IF outcome = "answers" THEN LlmText
  ELSE FallbackText(IF st.execution_result = None THEN 0 ELSE Val(st.execution_result).results)

\* the explanation the node returns
generate_explanation_node(st, outcome) ==
  IF EmptyResults(st.execution_result) THEN NoResultsText
  ELSE IF outcome = "answers" THEN LlmText
  ELSE FallbackText(Val(st.execution_result).results)

\* the explanations the node can produce: fixed text for an empty result,
\* else the collaborator's text, or the fallback when it raises
explanations(st) == { generate_explanation_node(st, o) : o \in ExplainOutcomes }

GenerateExplanation ==
  /\ pc = "generate_explanation"
  /\ \E o \in ExplainOutcomes :
       /\ state' = [ state EXCEPT !.explanation = Some(generate_explanation_node(state, o)) ]
       /\ obs' = [ obs EXCEPT !.lastNode = "generate_explanation",
                              !.explain = IF EmptyResults(state.execution_result)
                                          THEN "not_called" ELSE o ]
  /\ pc' = "plan"
  /\ UNCHANGED << chat_sessions, response >>

Complete ==
  /\ pc = "complete"
  /\ state' = [ state EXCEPT !.is_complete = TRUE ]
  /\ pc' = "END"
  /\ obs' = [ obs EXCEPT !.lastNode = "complete" ]
  /\ UNCHANGED << chat_sessions, response >>

(* ------------------------------------------------------------------ *)
(* generate_sql_with_agent after workflow.invoke                        *)
(* ------------------------------------------------------------------ *)
\* _add_to_history on the list of a session: append, keep the last HistoryCap entries
\* mutant: the cap is tested one entry late
NeedsTrim_late(h) == Len(h) > HistoryCap + 1

\* len(history) > 10
NeedsTrim(h) == Len(h) > HistoryCap

\* mutant: the slice keeps the first entries
LastTurns_first(h) ==
  IF Len(h) > HistoryCap THEN SubSeq(h, 1, HistoryCap) ELSE h

\* history[-10:]
LastTurns(h) ==
  IF Len(h) > HistoryCap THEN SubSeq(h, Len(h) - HistoryCap + 1, Len(h)) ELSE h

add_to_history(h, entry) ==
  LET a == Append(h, entry)
  IN IF NeedsTrim(a) THEN LastTurns(a) ELSE a

\* _add_to_history on the store, run without interruption: the session is
\* created when absent
store_add(sessions, sid, entry) ==
  [ s \in DOMAIN sessions \cup { sid } |->
      IF s = sid THEN add_to_history(get_chat_history(sessions, sid), entry)
      ELSE sessions[s] ]

\* Python truthiness of an optional dict or string field
Truthy(o) == o # None /\ Val(o) # << >>

\* mutant: every run is stored
should_store_always(st) == TRUE

\* final_state.get("sql_query") and not final_state.get("clarification_needed")
should_store(st) == Truthy(st.sql_query) /\ ~st.clarification_needed

\* mutant: the results are reported only once they were validated
response_keys_validated_only(st) ==
  { "success", "sql", "explanation", "method", "session_id", "iterations",
    "tool_calls", "clarification_needed" }
  \cup (IF Truthy(st.execution_result) /\ Truthy(st.validation_result)
        THEN { "results", "chart_metadata" } ELSE {})
  \cup (IF Truthy(st.validation_result) THEN { "validation" } ELSE {})
  \cup (IF Truthy(st.reflection_result) THEN { "reflection" } ELSE {})
  \cup (IF Truthy(st.security_validation) THEN { "security_validation" } ELSE {})

\* mutant: the counters of the run are left out of the response
response_keys_noCounters(st) ==
  { "success", "sql", "explanation", "method", "session_id" }
  \cup (IF Truthy(st.execution_result) THEN { "results", "chart_metadata" } ELSE {})
  \cup (IF Truthy(st.validation_result) THEN { "validation" } ELSE {})
  \cup (IF Truthy(st.reflection_result) THEN { "reflection" } ELSE {})
  \cup (IF Truthy(st.security_validation) THEN { "security_validation" } ELSE {})

\* the keys _format_response puts into a non-clarification response
response_keys(st) ==
  { "success", "sql", "explanation", "method", "session_id", "iterations",
    "tool_calls", "clarification_needed" }
  \cup (IF Truthy(st.execution_result) THEN { "results", "chart_metadata" } ELSE {})
  \cup (IF Truthy(st.validation_result) THEN { "validation" } ELSE {})
  \cup (IF Truthy(st.reflection_result) THEN { "reflection" } ELSE {})
  \cup (IF Truthy(st.security_validation) THEN { "security_validation" } ELSE {})

format_response(st) ==
  IF st.clarification_needed
  THEN [ keys |-> { "success", "needs_clarification", "questions", "method", "session_id" },
         success |-> FALSE, needs_clarification |-> TRUE,
         questions |-> st.clarification_questions,
         sql |-> None, explanation |-> None, iterations |-> 0, tool_calls |-> 0,
         results |-> None, validation |-> None, reflection |-> None,
         security_validation |-> None, session_id |-> st.session_id ]
  ELSE [ keys |-> response_keys(st),
         success |-> TRUE, needs_clarification |-> FALSE,
         questions |-> << >>,
         sql |-> st.sql_query, explanation |-> st.explanation,
         iterations |-> st.iteration, tool_calls |-> Len(st.tool_calls),
         results |-> IF Truthy(st.execution_result) THEN st.execution_result ELSE None,
         validation |-> IF Truthy(st.validation_result) THEN st.validation_result ELSE None,
         reflection |-> IF Truthy(st.reflection_result) THEN st.reflection_result ELSE None,
         security_validation |-> IF Truthy(st.security_validation)
                                 THEN st.security_validation ELSE None,
         session_id |-> st.session_id ]

Return ==
  /\ pc = "END"
  /\ chat_sessions' =
       IF should_store(state)
       THEN store_add(chat_sessions, state.session_id,
                      [ user_query |-> state.user_query.text,
                        sql_query |-> Val(state.sql_query) ])
       ELSE chat_sessions
  /\ response' = Some(format_response(state))
  /\ pc' = "returned"
  /\ obs' = [ obs EXCEPT !.lastNode = "return" ]
  /\ UNCHANGED state

(* ------------------------------------------------------------------ *)
(* Specification                                                        *)
(* ------------------------------------------------------------------ *)
Next ==
  \/ DetectClarification
  \/ Plan
  \/ GetSchema
  \/ ExecuteSqlReturns
  \/ ExecuteSqlRaises
  \/ ValidateResults
  \/ GenerateSqlAnswers
  \/ GenerateSqlRaises
  \/ Reflect
  \/ GenerateExplanation
  \/ Complete
  \/ Return

Spec == Init /\ [][Next]_vars

\* every node of the graph that is scheduled runs to its end
FairSpec == Spec /\ WF_vars(Next)

(* ------------------------------------------------------------------ *)
(* Properties                                                           *)
(* ------------------------------------------------------------------ *)
Terminal == { "complete", "END", "returned" }

AllArtifacts(st) ==
  /\ st.schema # None /\ st.sql_query # None /\ st.execution_result # None
  /\ st.validation_result # None /\ st.reflection_result # None /\ st.explanation # None

\* C1: with max_iterations = N, whatever the collaborators do, at most N
\* Plan passes choose an action; the pass after them (the N+1st at most)
\* forces Complete.
C1_PlanPassesBounded ==
  /\ obs.actionPasses <= state.max_iterations
  /\ obs.planPasses <= state.max_iterations + 1
  /\ (obs.planPasses = state.max_iterations + 1 => state.next_action = "complete")

C1_Witness ==
  /\ pc = "returned" /\ state.max_iterations >= 3
  /\ obs.planPasses = state.max_iterations + 1
  /\ obs.actionPasses = state.max_iterations
  /\ obs.genFailed

\* C2: under fairness of the node steps every run returns, and the workflow
\* is at Complete only when clarification is needed, the iteration counter
\* exceeded the budget, or the decision tree found no artifact missing.
C2_Terminates ==
  /\ <>(pc = "returned")
  /\ [](pc \in Terminal =>
          \/ state.clarification_needed
          \/ state.iteration > state.max_iterations
          \/ AllArtifacts(state))

C2_Witness ==
  /\ pc = "returned" /\ ~state.clarification_needed
  /\ state.iteration <= state.max_iterations
  /\ state.explanation = Some(FallbackText(1))

\* C3: sql_query is non-null only if the validator returned passed=true for
\* exactly that SQL text in this run, and execute_sql is only ever called on
\* such SQL.
C3_ValidatorGates ==
  /\ (state.sql_query # None => Val(state.sql_query) \in obs.validatedOk)
  /\ obs.executed \subseteq obs.validatedOk
  /\ (state.sql_query # None =>
        state.security_validation # None /\ Val(state.security_validation).passed)

C3_Witness ==
  /\ obs.secFailed /\ obs.executed # {}
  /\ state.sql_query # None /\ state.execution_result # None

C5_GenerationFailureFatal ==
  obs.genFailed => (pc \in Terminal /\ obs.lastNode # "plan")

\* C6: once the validator has rejected generated SQL the workflow is at
\* Complete, and the response names the failed checks.
C6_SecurityFailureFatal ==
  obs.secFailed =>
    /\ pc \in Terminal
    /\ (pc = "returned" =>
          /\ "security_validation" \in Val(response).keys
          /\ failed_checks(Val(Val(response).security_validation)) # {})

\* C7: when execution failed with a critical error and enough iterations
\* remained for validate, reflect and a new generate pass, the run generated
\* SQL again after that failure.
C7_CriticalFailureRetries ==
  (pc = "returned" /\ obs.critFailAt # 0 /\ obs.critFailAt + 3 <= state.max_iterations)
    => obs.regenAfterCrit

\* C8: after an empty-but-successful result set or a non-critical execution
\* error no further generate-SQL or execute-SQL step runs.
C8_AcceptedWithoutRetry ==
  obs.accepted # "none" => ~obs.redoAfterAccepted

\* C9: while the incremented counter does not exceed the budget, Plan picks
\* the action of the first missing artifact in the order schema, SQL,
\* execution result, validation, reflection, explanation, and picks complete
\* only when none is missing; the edge leads to the node of that action.
C9_PlanDecisionOrder ==
  (obs.lastNode = "plan" /\ state.iteration <= state.max_iterations) =>
    LET na == state.next_action
    IN /\ (state.schema = None => na = "get_schema")
       /\ (state.schema # None /\ state.sql_query = None => na = "generate_sql")
       /\ (state.schema # None /\ state.sql_query # None /\ state.execution_result = None
             => na = "execute_sql")
       /\ (state.schema # None /\ state.sql_query # None /\ state.execution_result # None
             /\ state.validation_result = None => na = "validate_results")
       /\ (state.schema # None /\ state.sql_query # None /\ state.execution_result # None
             /\ state.validation_result # None /\ state.reflection_result = None
             => na = "reflect")
       /\ (state.schema # None /\ state.sql_query # None /\ state.execution_result # None
             /\ state.validation_result # None /\ state.reflection_result # None
             /\ state.explanation = None => na = "generate_explanation")
       /\ (na = "complete" <=> AllArtifacts(state))
       /\ pc = (IF na \in { "get_schema", "execute_sql", "validate_results" }
                THEN "execute_tools" ELSE na)

C9_Witness ==
  /\ obs.lastNode = "plan" /\ state.iteration <= state.max_iterations
  /\ state.next_action = "reflect"
  /\ Len(state.tool_calls) > 3

\* C10: a run forced to Complete by the budget returns success=true and its
\* response carries sql, results, validation, reflection and
\* security_validation exactly when the state holds them.
C10_BudgetForcedPartial ==
  (pc = "returned" /\ ~state.clarification_needed
     /\ state.iteration > state.max_iterations) =>
    LET r == Val(response)
    IN /\ r.success = TRUE
       /\ r.sql = state.sql_query
       /\ ("results" \in r.keys <=> state.execution_result # None)
       /\ r.results = state.execution_result
       /\ ("validation" \in r.keys <=> state.validation_result # None)
       /\ r.validation = state.validation_result
       /\ ("reflection" \in r.keys <=> state.reflection_result # None)
       /\ r.reflection = state.reflection_result
       /\ ("security_validation" \in r.keys <=> state.security_validation # None)
       /\ r.security_validation = state.security_validation

C10_Witness ==
  /\ pc = "returned" /\ ~state.clarification_needed
  /\ state.iteration > state.max_iterations
  /\ state.execution_result # None /\ state.validation_result = None
  /\ "results" \in Val(response).keys

\* C11: clarification is needed exactly when the question list is non-empty,
\* and then the run goes from detect_clarification straight to complete: no
\* plan pass, no tool, no SQL generation; the response asks for clarification
\* (needs_clarification, success=false, the questions) and carries no SQL.
C11_ClarificationShortCircuit ==
  /\ state.clarification_needed <=> Len(state.clarification_questions) > 0
  /\ state.clarification_needed =>
       /\ pc \in Terminal
       /\ state.iteration = 0 /\ obs.planPasses = 0 /\ obs.actionPasses = 0
       /\ state.tool_calls = << >>
       /\ state.sql_query = None /\ state.security_validation = None
       /\ ~obs.genFailed /\ ~obs.secFailed
  /\ pc = "returned" =>
       /\ Val(response).needs_clarification <=> state.clarification_needed
       /\ state.clarification_needed =>
            /\ Val(response).success = FALSE
            /\ Val(response).questions = state.clarification_questions
            /\ Val(response).questions # << >>
            /\ "sql" \notin Val(response).keys
            /\ Val(response).sql = None

C11_Witness ==
  /\ pc = "returned"
  /\ Val(response).needs_clarification
  /\ Val(response).questions = << Q_period >>


\* C12: the ambiguity detector acts only on a session without history: a run
\* on a session that already holds a turn never asks for clarification.
C12_NoClarificationWithHistory ==
  (pc = "returned" /\ Val(response).needs_clarification)
    => get_chat_history(chat_sessions, state.session_id) = << >>

(* ------------------------------------------------------------------ *)
(* The detector on every combination of its signals                     *)
(* ------------------------------------------------------------------ *)
\* every utterance as the detector sees it; a word of the metric vocabulary
\* (metric_specific) is also a metric word
Signals ==
  { u \in [ text : { "utterance" }, clarified : BOOLEAN, short : BOOLEAN,
            entity : BOOLEAN, metric : BOOLEAN, action : BOOLEAN, vague : BOOLEAN,
            dim : BOOLEAN, grouping : BOOLEAN, trend : BOOLEAN, year : BOOLEAN,
            timekw : BOOLEAN, performance : BOOLEAN, perf_metric : BOOLEAN,
            topbest : BOOLEAN, metric_specific : BOOLEAN ] :
      u.metric_specific => u.metric }

DetectorInit ==
  \E u \in Signals, sid \in Sessions, k \in 0..MaxPriorTurns :
    /\ chat_sessions = [ s \in { x \in Sessions : x = sid /\ k > 0 } |-> PriorHistory(k) ]
    /\ state = InitialState(u, u, sid, "1", CHOOSE ds \in Datasets : TRUE, 1)
    /\ pc = "detect_clarification"
    /\ response = None
    /\ obs = InitialObs

DetectorSpec == DetectorInit /\ [][DetectClarification]_vars

Detected == obs.lastNode = "detect_clarification"

FirstInSession == get_chat_history(chat_sessions, state.session_id) = << >>

\* the trend rule's case: "trend" without a year or time keyword in a query
\* that is not complete
TrendCase(u) ==
  u.trend /\ ~u.year /\ ~u.timekw /\ ~(u.action /\ (u.metric \/ u.entity))

\* C13 as stated: every first-in-session utterance in the trend rule's case
\* gets clarification_needed=true with the question "Which time period?".
C13_TrendAsksPeriod ==
  (Detected /\ FirstInSession /\ TrendCase(state.resolved_query))
    => /\ state.clarification_needed
       /\ InSeq(Q_period, state.clarification_questions)

\* C13 amended: the same for every first-in-session utterance that carries no
\* clarification marker.
C13_TrendAsksPeriodUnmarked ==
  (Detected /\ FirstInSession /\ TrendCase(state.resolved_query)
     /\ ~state.user_query.clarified)
    => /\ state.clarification_needed
       /\ InSeq(Q_period, state.clarification_questions)

C13_Witness ==
  /\ Detected /\ FirstInSession /\ TrendCase(state.resolved_query)
  /\ ~state.user_query.clarified
  /\ state.resolved_query.metric /\ ~state.resolved_query.action
  /\ state.clarification_questions = << Q_period >>
  /\ pc = "complete"

(* ------------------------------------------------------------------ *)
(* The session store under the request threads of the server            *)
(*                                                                      *)
(* In StoreSpec and SerialStoreSpec pc, state and response hold one     *)
(* value per request thread; the workflow of a run is reduced to the    *)
(* final state it hands back to generate_sql_with_agent.                *)
(* ------------------------------------------------------------------ *)
MaxRequests == 2

Threads == { "t1", "t2" }
StoreSessions == { "s1", "s2" }

\* lengths of the histories the store holds at the start (0: session absent)
InitLens == { 0, 1, HistoryCap - 1, HistoryCap }

\* the final states of workflow.invoke, by what generate_sql_with_agent reads
RunOutcomes ==
  { [ kind |-> "answered", sql_query |-> Some(<< "SELECT" >>),
      clarification_needed |-> FALSE ],
    [ kind |-> "clarification", sql_query |-> None, clarification_needed |-> TRUE ],
    [ kind |-> "generation_failure", sql_query |-> None, clarification_needed |-> FALSE ],
    [ kind |-> "security_failure", sql_query |-> None, clarification_needed |-> FALSE ] }

IdleThread ==
  [ op |-> "none", session_id |-> "", turn |-> 0, kind |-> "",
    chat_history |-> << >>, sql_query |-> None, clarification_needed |-> FALSE,
    sliced |-> << >> ]

\* the turn stored for the utterance numbered n
Turn(n, sql) == [ user_query |-> n, sql_query |-> sql ]

history_entry(st) == Turn(st.turn, st.sql_query)

\* session_id not in self.chat_sessions
session_absent(sessions, sid) == sid \notin DOMAIN sessions

\* self.chat_sessions[session_id] = value
store_set(sessions, sid, value) ==
  [ s \in DOMAIN sessions \cup { sid } |-> IF s = sid THEN value ELSE sessions[s] ]

\* mutant: the delete clears the whole store
store_del_all(sessions, sid) == << >>

\* del self.chat_sessions[session_id]
store_del(sessions, sid) == [ s \in DOMAIN sessions \ { sid } |-> sessions[s] ]

RunResponse(st) ==
  Some([ success |-> ~st.clarification_needed,
         needs_clarification |-> st.clarification_needed, error |-> None ])

\* the except branch of generate_sql_with_agent
ErrorResponse(msg) ==
  Some([ success |-> FALSE, needs_clarification |-> FALSE, error |-> Some(msg) ])

DeleteResponse(msg) ==
  Some([ success |-> TRUE, needs_clarification |-> FALSE, error |-> None, message |-> msg ])

StoreInit ==
  \E len \in [ StoreSessions -> InitLens ] :
    /\ chat_sessions = [ s \in { x \in StoreSessions : len[x] > 0 } |->
                           [ i \in 1..len[s] |-> Turn(i, Some(<< "SELECT" >>)) ] ]
    /\ pc = [ p \in Threads |-> "idle" ]
    /\ state = [ p \in Threads |-> IdleThread ]
    /\ response = [ p \in Threads |-> None ]
    /\ obs = [ issued |-> 0,
               added |-> [ s \in StoreSessions |->
                             [ i \in 1..len[s] |-> Turn(i, Some(<< "SELECT" >>)) ] ],
               cutoff |-> [ s \in StoreSessions |-> 0 ],
               before |-> [ p \in Threads |-> << >> ] ]

\* generate_sql_with_agent up to the decision to store: the history is read,
\* the query expanded, the workflow run
RunWorkflow(p) ==
  /\ pc[p] = "idle"
  /\ obs.issued < MaxRequests
  /\ \E sid \in StoreSessions, o \in RunOutcomes :
       LET st == [ IdleThread EXCEPT !.op = "run", !.session_id = sid,
                     !.turn = HistoryCap + obs.issued + 1, !.kind = o.kind,
                     !.chat_history = get_chat_history(chat_sessions, sid),
                     !.sql_query = o.sql_query,
                     !.clarification_needed = o.clarification_needed ]
       IN /\ state' = [ state EXCEPT ![p] = st ]
          /\ IF should_store(st)
             THEN /\ pc' = [ pc EXCEPT ![p] = "add_check" ]
                  /\ response' = [ response EXCEPT ![p] = None ]
             ELSE /\ pc' = [ pc EXCEPT ![p] = "idle" ]
                  /\ response' = [ response EXCEPT ![p] = RunResponse(st) ]
  /\ obs' = [ obs EXCEPT !.issued = @ + 1, !.before[p] = chat_sessions ]
  /\ UNCHANGED chat_sessions

\* _add_to_history: if session_id not in self.chat_sessions
AddCheck(p) ==
  /\ pc[p] = "add_check"
  /\ pc' = [ pc EXCEPT ![p] =
               IF session_absent(chat_sessions, state[p].session_id)
               THEN "add_create" ELSE "add_append" ]
  /\ UNCHANGED << state, chat_sessions, response, obs >>

\* _add_to_history: self.chat_sessions[session_id] = []
AddCreate(p) ==
  /\ pc[p] = "add_create"
  /\ chat_sessions' = store_set(chat_sessions, state[p].session_id, << >>)
  /\ pc' = [ pc EXCEPT ![p] = "add_append" ]
  /\ UNCHANGED << state, response, obs >>

\* a lookup of self.chat_sessions[session_id] that finds no such key
KeyErrorAt(p) ==
  /\ pc' = [ pc EXCEPT ![p] = "idle" ]
  /\ response' = [ response EXCEPT ![p] = ErrorResponse("KeyError") ]
  /\ UNCHANGED << state, chat_sessions, obs >>

\* _add_to_history: self.chat_sessions[session_id].append(entry)
AddAppend(p) ==
  /\ pc[p] = "add_append"
  /\ LET sid == state[p].session_id
     IN IF sid \notin DOMAIN chat_sessions THEN KeyErrorAt(p)
        ELSE /\ chat_sessions' =
                  store_set(chat_sessions, sid,
                            Append(chat_sessions[sid], history_entry(state[p])))
             /\ obs' = [ obs EXCEPT !.added[sid] = Append(@, history_entry(state[p])) ]
             /\ pc' = [ pc EXCEPT ![p] = "trim_check" ]
             /\ UNCHANGED << state, response >>

\* _add_to_history: if len(self.chat_sessions[session_id]) > 10
TrimCheck(p) ==
  /\ pc[p] = "trim_check"
  /\ LET sid == state[p].session_id
     IN IF sid \notin DOMAIN chat_sessions THEN KeyErrorAt(p)
        ELSE /\ pc' = [ pc EXCEPT ![p] =
                          IF NeedsTrim(chat_sessions[sid]) THEN "trim_slice" ELSE "add_log" ]
             /\ UNCHANGED << state, chat_sessions, response, obs >>

\* _add_to_history: the list self.chat_sessions[session_id][-10:] is built
\* (the lookup for the count of removed entries fails where this one fails)
TrimSlice(p) ==
  /\ pc[p] = "trim_slice"
  /\ LET sid == state[p].session_id
     IN IF sid \notin DOMAIN chat_sessions THEN KeyErrorAt(p)
        ELSE /\ state' = [ state EXCEPT ![p].sliced = LastTurns(chat_sessions[sid]) ]
             /\ pc' = [ pc EXCEPT ![p] = "trim_assign" ]
             /\ UNCHANGED << chat_sessions, response, obs >>

\* _add_to_history: the built list is stored under session_id
TrimAssign(p) ==
  /\ pc[p] = "trim_assign"
  /\ chat_sessions' = store_set(chat_sessions, state[p].session_id, state[p].sliced)
  /\ pc' = [ pc EXCEPT ![p] = "add_log" ]
  /\ UNCHANGED << state, response, obs >>

\* _add_to_history: the total is logged; generate_sql_with_agent returns
AddLog(p) ==
  /\ pc[p] = "add_log"
  /\ IF state[p].session_id \notin DOMAIN chat_sessions THEN KeyErrorAt(p)
     ELSE /\ pc' = [ pc EXCEPT ![p] = "idle" ]
          /\ response' = [ response EXCEPT ![p] = RunResponse(state[p]) ]
          /\ UNCHANGED << state, chat_sessions, obs >>

\* delete_session: if session_id in agentic_service.chat_sessions
DeleteCheck(p) ==
  /\ pc[p] = "idle"
  /\ obs.issued < MaxRequests
  /\ \E sid \in StoreSessions :
       /\ state' = [ state EXCEPT ![p] = [ IdleThread EXCEPT !.op = "delete",
                                                             !.session_id = sid ] ]
       /\ IF sid \in DOMAIN chat_sessions
          THEN /\ pc' = [ pc EXCEPT ![p] = "delete_del" ]
               /\ response' = [ response EXCEPT ![p] = None ]
               /\ obs' = [ obs EXCEPT !.issued = @ + 1, !.before[p] = chat_sessions ]
          ELSE /\ pc' = [ pc EXCEPT ![p] = "idle" ]
               /\ response' = [ response EXCEPT ![p] =
                                  DeleteResponse("Session not found or already cleared") ]
               /\ obs' = [ obs EXCEPT !.issued = @ + 1, !.before[p] = chat_sessions ]
  /\ UNCHANGED chat_sessions

\* delete_session: the queries are counted and the session is deleted
DeleteDel(p) ==
  /\ pc[p] = "delete_del"
  /\ LET sid == state[p].session_id
     IN IF sid \notin DOMAIN chat_sessions
        THEN /\ pc' = [ pc EXCEPT ![p] = "idle" ]
             /\ response' = [ response EXCEPT ![p] = ErrorResponse("Failed to delete session") ]
             /\ UNCHANGED << state, chat_sessions, obs >>
        ELSE /\ chat_sessions' = store_del(chat_sessions, sid)
             /\ pc' = [ pc EXCEPT ![p] = "idle" ]
             /\ response' = [ response EXCEPT ![p] = DeleteResponse("Session deleted") ]
             /\ obs' = [ obs EXCEPT !.added[sid] = << >>,
                                    !.cutoff[sid] = HistoryCap + obs.issued ]
             /\ UNCHANGED state

StoreNext ==
  \E p \in Threads :
    \/ RunWorkflow(p)
    \/ AddCheck(p)
    \/ AddCreate(p)
    \/ AddAppend(p)
    \/ TrimCheck(p)
    \/ TrimSlice(p)
    \/ TrimAssign(p)
    \/ AddLog(p)
    \/ DeleteCheck(p)
    \/ DeleteDel(p)

\* requests handled by any thread of the server, interleaved
StoreSpec == StoreInit /\ [][StoreNext]_vars

SerialNext ==
  \/ RunWorkflow("t1")
  \/ AddCheck("t1")
  \/ AddCreate("t1")
  \/ AddAppend("t1")
  \/ TrimCheck("t1")
  \/ TrimSlice("t1")
  \/ TrimAssign("t1")
  \/ AddLog("t1")
  \/ DeleteCheck("t1")
  \/ DeleteDel("t1")

\* requests handled one after the other
SerialStoreSpec == StoreInit /\ [][SerialNext]_vars

Quiescent == \A p \in Threads : pc[p] = "idle"

\* C14: once every request has returned, no session holds more than
\* HistoryCap turns.
C14_HistoryCapped ==
  Quiescent => \A s \in DOMAIN chat_sessions : Len(chat_sessions[s]) <= HistoryCap

C14_Witness ==
  /\ Quiescent
  /\ \E s \in DOMAIN chat_sessions :
       /\ Len(chat_sessions[s]) = HistoryCap
       /\ chat_sessions[s][1].user_query = 2
       /\ chat_sessions[s][HistoryCap].user_query > HistoryCap

\* C15: the history of a session is the last min(k, HistoryCap) of the k turns
\* added to it, in the order they were added; a turn added to a session that
\* holds HistoryCap turns drops the oldest one and comes last.
C15_OldestFirstEviction ==
  Quiescent =>
    /\ \A s \in StoreSessions :
         LET h == get_chat_history(chat_sessions, s)
             a == obs.added[s]
         IN /\ Len(h) = (IF Len(a) < HistoryCap THEN Len(a) ELSE HistoryCap)
            /\ \A i \in 1..Len(h) : h[i] = a[Len(a) - Len(h) + i]
    /\ \A p \in Threads :
         LET st == state[p]
             b == get_chat_history(obs.before[p], st.session_id)
         IN (st.op = "run" /\ st.kind = "answered" /\ Len(b) = HistoryCap)
              => get_chat_history(chat_sessions, st.session_id)
                   = Tail(b) \o << Turn(st.turn, st.sql_query) >>

C15_Witness ==
  /\ Quiescent
  /\ state["t1"].op = "run" /\ state["t1"].kind = "answered"
  /\ Len(get_chat_history(obs.before["t1"], state["t1"].session_id)) = HistoryCap
  /\ chat_sessions[state["t1"].session_id][1].user_query = 2
  /\ chat_sessions[state["t1"].session_id][HistoryCap].user_query = state["t1"].turn

\* C16: a run changes no session but its own; it leaves the store as it was
\* when it ends in clarification, in a generation failure or in a failed
\* security validation, and appends exactly one turn to its own session when
\* it ends with SQL and without clarification.
C16_StoreFrame ==
  \A p \in Threads :
    LET st == state[p]
        b == obs.before[p]
        h == get_chat_history(chat_sessions, st.session_id)
        bh == get_chat_history(b, st.session_id)
    IN st.op = "run" =>
         /\ \A s \in StoreSessions \ { st.session_id } :
              /\ s \in DOMAIN chat_sessions <=> s \in DOMAIN b
              /\ get_chat_history(chat_sessions, s) = get_chat_history(b, s)
         /\ st.kind \in { "clarification", "generation_failure", "security_failure" }
              => chat_sessions = b
         /\ (Quiescent /\ st.kind = "answered") =>
              /\ st.session_id \in DOMAIN chat_sessions
              /\ Len(h) >= 1
              /\ h[Len(h)] = Turn(st.turn, st.sql_query)
              /\ SubSeq(h, 1, Len(h) - 1) = (IF Len(bh) >= HistoryCap THEN Tail(bh) ELSE bh)

C16_Witness ==
  /\ Quiescent
  /\ obs.issued >= 2
  /\ state["t1"].op = "run" /\ state["t1"].kind = "answered"
  /\ state["t1"].session_id = "s1"
  /\ "s2" \in DOMAIN chat_sessions
  /\ Len(chat_sessions["s1"]) = Len(get_chat_history(obs.before["t1"], "s1")) + 1

\* the step deletes session s on an explicit delete request
DeletesSession(s) ==
  \E p \in Threads :
    /\ pc[p] = "delete_del" /\ state[p].session_id = s /\ pc'[p] = "idle"

\* C17: a session that holds a turn is still in the store and still holds a
\* turn after every step that is not the explicit deletion of that session.
C17_NoImplicitDestruction ==
  [][ \A s \in StoreSessions :
        (s \in DOMAIN chat_sessions /\ Len(chat_sessions[s]) >= 1 /\ ~DeletesSession(s))
          => (s \in DOMAIN chat_sessions' /\ Len(chat_sessions'[s]) >= 1) ]_vars

\* a run has added a turn to s2, then s1 was deleted, and s2 still holds its turns
C17_Witness ==
  /\ Quiescent
  /\ obs.issued >= 2
  /\ state["t1"].op = "delete" /\ state["t1"].session_id = "s1"
  /\ Val(response["t1"]).message = "Session deleted"
  /\ "s2" \in DOMAIN chat_sessions
  /\ Len(obs.added["s2"]) = 2 /\ Len(chat_sessions["s2"]) = 2

\* C18: under any interleaving of runs on a session no run reads a history of
\* more than HistoryCap turns and no appended turn is lost: once every
\* request has returned the history is the last turns appended, in order.
C18_ConcurrentTurnsSerialized ==
  /\ \A p \in Threads : Len(state[p].chat_history) <= HistoryCap
  /\ Quiescent =>
       \A s \in StoreSessions :
         LET h == get_chat_history(chat_sessions, s)
             a == obs.added[s]
         IN /\ Len(h) = (IF Len(a) < HistoryCap THEN Len(a) ELSE HistoryCap)
            /\ \A i \in 1..Len(h) : h[i] = a[Len(a) - Len(h) + i]

\* C19: after delete_session(s) has returned, the store holds no turn of s
\* from before the deletion and none of a run that was in flight then.
C19_DeleteCleansUp ==
  \A s \in DOMAIN chat_sessions :
    \A i \in 1..Len(chat_sessions[s]) : chat_sessions[s][i].user_query > obs.cutoff[s]

(* ------------------------------------------------------------------ *)
(* The validator on SQL texts built from clauses                        *)
(* ------------------------------------------------------------------ *)
FilterFields == { "client_id", "corp_id" }

SqlHeads ==
  { << "SELECT", "*", "FROM", "t" >>,
    << "DELETE", "FROM", "t" >>,
    << "delete", "FROM", "t" >>,
    << "Update", "t", "SET", "x", "=", "1" >>,
    << "SELECT", "last_update", ",", "created_at", "FROM", "t" >>,
    << "SELECT", "*", "FROM", "t", "JOIN", "u", "ON", "t.k", "=", "u.k" >> }
  \cup { << "SELECT", "*", "FROM", "t", "JOIN", "u", "ON", f, "=", n >> :
           f \in FilterFields, n \in ClientIds }

SqlFilters ==
  { << >> }
  \cup { << "WHERE", f, "=", n >> : f \in FilterFields, n \in ClientIds }
  \cup { << "WHERE", "x", "=", "1", "AND", f, "=", n >> : f \in FilterFields, n \in ClientIds }
  \cup { << "WHERE", f, "=", n, "OR", f, "=", m >> :
           f \in FilterFields, n \in ClientIds, m \in ClientIds }
  \cup { << "WHERE", f, "=", n, "OR", f, "=", QuotedLiteral(m) >> :
           f \in FilterFields, n \in ClientIds, m \in ClientIds }
  \cup { << "WHERE", f, "IN", "(", "1", ",", "2", ")" >> : f \in FilterFields }
  \cup { << "WHERE", f, "IN", "(", n, ")" >> : f \in FilterFields, n \in ClientIds }

SqlTails ==
  { << >>,
    << "GROUP BY", "x" >>,
    << "UNION", "SELECT", "*", "FROM", "u" >>,
    << "AND", "y", "IN", "(", "SELECT", "y", "FROM", "u", "WHERE", "z", "=", "1", ")" >> }

SqlInputs == { h \o f \o t : h \in SqlHeads, f \in SqlFilters, t \in SqlTails }

ValidatorInit ==
  \E sql \in SqlInputs, cid \in ClientIds, ds \in Datasets :
    /\ state = [ sql_query |-> sql, client_id |-> cid, dataset |-> ds ]
    /\ pc = "validate"
    /\ response = None
    /\ chat_sessions = << >>
    /\ obs = InitialObs

\* validate_sql_for_client_isolation and get_validation_summary on its result
Validate ==
  /\ pc = "validate"
  /\ LET vr == validate_sql_for_client_isolation(state.sql_query, state.client_id,
                                                  state.dataset)
     IN response' = Some([ validation |-> vr, summary |-> get_validation_summary(vr) ])
  /\ pc' = "validated"
  /\ UNCHANGED << state, chat_sessions, obs >>

ValidatorSpec == ValidatorInit /\ [][Validate]_vars

\* C20: a validation result holds the three checks Client ID Filter, Single
\* Client, Read-Only in this order, and passed is true exactly when all three
\* have status PASS, whatever the warnings are.
C20_PassedIffAllChecksPass ==
  pc = "validated" =>
    LET vr == Val(response).validation
        sm == Val(response).summary
    IN /\ Len(vr.checks) = 3
       /\ vr.checks[1].name = "Client ID Filter"
       /\ vr.checks[2].name = "Single Client"
       /\ vr.checks[3].name = "Read-Only"
       /\ \A i \in 1..3 : vr.checks[i].status \in { "PASS", "FAIL" }
       /\ vr.passed <=> (\A i \in 1..3 : vr.checks[i].status = "PASS")
       /\ sm.total_checks = 3
       /\ sm.passed <=> sm.failed_checks = 0

\* a query with two warnings passes
C20_Witness ==
  /\ pc = "validated"
  /\ Val(response).validation.passed
  /\ Val(response).validation.warnings = { "SUBQUERY", "UNION" }

(* ------------------------------------------------------------------ *)
(* The three checks, one by one                                         *)
(* ------------------------------------------------------------------ *)
Validated == pc = "validated"

CheckStatus(k) == Val(response).validation.checks[k].status

ClauseOpeners ==
  { "SELECT", "FROM", "JOIN", "ON", "WHERE", "SET", "GROUP BY", "ORDER BY",
    "HAVING", "LIMIT", "UNION" }

\* the clause that position j of the statement lies in
ClauseOf(sql, j) ==
  IF \E i \in 1..(j-1) : sql[i] \in ClauseOpeners
  THEN sql[CHOOSE i \in 1..(j-1) :
             sql[i] \in ClauseOpeners /\ \A k \in (i+1)..(j-1) : sql[k] \notin ClauseOpeners]
  ELSE ""

\* the filter column is compared with the expected id inside a WHERE predicate
\* (as its first condition or after AND/OR)
ComparedInWhere(sql, field, id) ==
  \E j \in 1..Len(sql) : FilterEqAt(sql, j, field, id) /\ ClauseOf(sql, j) = "WHERE"

ComparedInScope(sql, id, cfg) ==
  IF cfg.method = "brand-hierarchy" THEN Anywhere(sql, cfg.filter_field, id)
  ELSE ComparedInWhere(sql, cfg.filter_field, id)

\* C21: the Client ID Filter check passes exactly when the configured filter
\* column is compared for equality with the expected id in the allowed scope:
\* inside a WHERE predicate under row-level, anywhere under brand-hierarchy.
C21_PresenceInScope ==
  Validated =>
    (CheckStatus(1) = "PASS"
       <=> ComparedInScope(state.sql_query, state.client_id, state.dataset))

\* every literal the filter column is compared with for equality, in digits or in quotes
ComparedLiterals(sql, field) ==
  { sql[j+2] : j \in { i \in 1..(Len(sql) - 2) :
        /\ sql[i] = field /\ sql[i+1] = "="
        /\ sql[i+2] \in NumberTokens \cup { QuotedLiteral(n) : n \in NumberTokens } } }

HasInList(sql, field) ==
  \E i \in 1..(Len(sql) - 1) : sql[i] = field /\ sql[i+1] = "IN"

\* C22: a statement that passes validation compares the filter column with the
\* expected id at least once, has no IN-list on the filter column, and compares
\* the filter column with no other literal.
C22_PassedMeansOneTenant ==
  (Validated /\ Val(response).validation.passed) =>
    LET f == state.dataset.filter_field
    IN /\ Anywhere(state.sql_query, f, state.client_id)
       /\ ~HasInList(state.sql_query, f)
       /\ ComparedLiterals(state.sql_query, f) \subseteq
            { state.client_id, QuotedLiteral(state.client_id) }

\* the spellings of a keyword in upper, lower and capitalised letters
Spellings ==
  { << "DELETE", "DELETE" >>, << "delete", "DELETE" >>,
    << "UPDATE", "UPDATE" >>, << "Update", "UPDATE" >> }
  \cup { << k, k >> : k \in destructive_keywords }

StandaloneKeyword(sql) ==
  \E i \in 1..Len(sql) : \E sp \in Spellings : sql[i] = sp[1]

\* C23: the Read-Only check fails, and with it the whole validation, exactly
\* when a destructive keyword stands in the statement as a word of its own in
\* any letter case; a keyword inside a longer identifier does not fail it.
C23_ReadOnlyIffKeyword ==
  Validated =>
    /\ (CheckStatus(3) = "FAIL" <=> StandaloneKeyword(state.sql_query))
    /\ (CheckStatus(3) = "FAIL" => ~Val(response).validation.passed)

\* a lower-case delete with the tenant filter present: the first two checks
\* pass, Read-Only fails and so does the validation
C23_Witness ==
  /\ Validated
  /\ state.sql_query = << "delete", "FROM", "t", "WHERE", "client_id", "=", "1" >>
  /\ CheckStatus(1) = "PASS" /\ CheckStatus(2) = "PASS" /\ CheckStatus(3) = "FAIL"
  /\ ~Val(response).validation.passed

\* identifiers that contain a keyword pass Read-Only
C23_IdentifierWitness ==
  /\ Validated
  /\ FindTok(state.sql_query, "last_update") # 0
  /\ CheckStatus(3) = "PASS"

(* ------------------------------------------------------------------ *)
(* The safety net on SQL texts built from clauses                       *)
(* ------------------------------------------------------------------ *)
SafetyNetInit ==
  \E sql \in SqlInputs, cid \in ClientIds, ds \in Datasets :
    /\ state = [ sql_query |-> sql, client_id |-> cid, dataset |-> ds ]
    /\ pc = "ensure"
    /\ response = None
    /\ chat_sessions = << >>
    /\ obs = InitialObs

\* _generate_sql_node: sql = self._ensure_corp_id_filter(sql, client_id)
EnsureFilter ==
  /\ pc = "ensure"
  /\ response' = Some([ sql |-> ensure_corp_id_filter(state.sql_query, state.client_id) ])
  /\ pc' = "ensured"
  /\ UNCHANGED << state, chat_sessions, obs >>

SafetyNetSpec == SafetyNetInit /\ [][EnsureFilter]_vars

\* the statement out is the statement sql with the condition field = id put
\* in front of the conditions of its first WHERE, or in a new WHERE clause
RepairedWith(sql, out, field, id) ==
  \/ \E w \in 1..Len(sql) :
        /\ sql[w] = "WHERE"
        /\ out = Slice(sql, 1, w) \o << field, "=", id, "AND" >> \o Slice(sql, w + 1, Len(sql))
  \/ /\ FindTok(sql, "WHERE") = 0
     /\ \E p \in 1..(Len(sql) + 1) :
          out = Slice(sql, 1, p - 1) \o << "WHERE", field, "=", id >> \o Slice(sql, p, Len(sql))

\* C24: for every dataset the safety net returns a statement that already
\* holds filter column = tenant id unchanged, and repairs a statement that
\* lacks it with a condition on that dataset's configured filter column.
C24_SafetyNetUsesDatasetFilter ==
  pc = "ensured" =>
    LET f == state.dataset.filter_field
        sql == state.sql_query
        out == Val(response).sql
    IN IF Anywhere(sql, f, state.client_id)
       THEN out = sql
       ELSE RepairedWith(sql, out, f, state.client_id)

(* ------------------------------------------------------------------ *)
(* agent_tools.Tool.execute                                             *)
(* ------------------------------------------------------------------ *)
ToolNames == { "get_schema", "execute_sql", "validate_results" }

\* what self.function(**kwargs) does: it returns a value or raises an Exception
FunctionOutcomes ==
  { [ kind |-> "returns", value |-> v ] : v \in { "None", "schema", "rows", "validation" } }
  \cup { [ kind |-> "raises", message |-> m ] :
           m \in { "", "no such table: t", "unable to open database file",
                   "got an unexpected keyword argument" } }

\* seconds on the clock
Clock == 0..2

\* mutant: the failure envelope holds the error text only
Tool_execute_bare(name, outcome, elapsed) ==
  IF outcome.kind = "returns"
  THEN [ success |-> TRUE, tool |-> name, result |-> outcome.value, elapsed |-> elapsed ]
  ELSE [ success |-> FALSE, error |-> outcome.message ]

\* the envelope Tool.execute returns: the try branch and the except branch
Tool_execute(name, outcome, elapsed) ==
  IF outcome.kind = "returns"
  THEN [ success |-> TRUE, tool |-> name, result |-> outcome.value, elapsed |-> elapsed ]
  ELSE [ success |-> FALSE, tool |-> name, error |-> outcome.message, elapsed |-> elapsed ]

ToolInit ==
  \E name \in ToolNames, now \in Clock :
    /\ state = [ name |-> name, now |-> now, start_time |-> None ]
    /\ pc = "tool_call"
    /\ response = None
    /\ chat_sessions = << >>
    /\ obs = InitialObs

\* start_time = datetime.now()
ToolStart ==
  /\ pc = "tool_call"
  /\ state' = [ state EXCEPT !.start_time = Some(state.now) ]
  /\ pc' = "tool_try"
  /\ UNCHANGED << chat_sessions, response, obs >>

\* try: result = self.function(**kwargs); return the success envelope
ToolReturns ==
  /\ pc = "tool_try"
  /\ \E o \in FunctionOutcomes, later \in Clock :
       /\ o.kind = "returns"
       /\ later >= state.now
       /\ state' = [ state EXCEPT !.now = later ]
       /\ response' = Some(Tool_execute(state.name, o, later - Val(state.start_time)))
  /\ pc' = "tool_returned"
  /\ UNCHANGED << chat_sessions, obs >>

\* except Exception as e: return the failure envelope
ToolCatches ==
  /\ pc = "tool_try"
  /\ \E o \in FunctionOutcomes, later \in Clock :
       /\ o.kind = "raises"
       /\ later >= state.now
       /\ state' = [ state EXCEPT !.now = later ]
       /\ response' = Some(Tool_execute(state.name, o, later - Val(state.start_time)))
  /\ pc' = "tool_returned"
  /\ UNCHANGED << chat_sessions, obs >>

ToolNext == ToolStart \/ ToolReturns \/ ToolCatches

ToolSpec == ToolInit /\ [][ToolNext]_vars

\* C25: a call of Tool.execute ends by returning an envelope that carries the
\* tool name and the elapsed time and is either a success (success true, a
\* result, no error) or a failure (success false, the error text, no result).
C25_EnvelopeAlways ==
  /\ pc \in { "tool_call", "tool_try", "tool_returned" }
  /\ pc = "tool_returned" =>
       LET env == Val(response)
       IN /\ { "success", "tool", "elapsed" } \subseteq DOMAIN env
          /\ env.tool = state.name
          /\ env.elapsed = state.now - Val(state.start_time)
          /\ env.elapsed >= 0
          /\ \/ env.success /\ "result" \in DOMAIN env /\ "error" \notin DOMAIN env
             \/ ~env.success /\ "error" \in DOMAIN env /\ "result" \notin DOMAIN env

\* the operation raised after one second: a failure envelope with its text
C25_Witness ==
  /\ pc = "tool_returned"
  /\ ~Val(response).success
  /\ Val(response).error = "no such table: t"
  /\ Val(response).elapsed = 1

(* ------------------------------------------------------------------ *)
(* Tool failures in a run                                               *)
(* ------------------------------------------------------------------ *)
FailedToolCalls(st) == { k \in 1..Len(st.tool_calls) : ~st.tool_calls[k].success }

\* C26: a failed tool call hands control back to Plan with an error naming the
\* tool on the state, and the response of a run in which a tool call failed
\* reports it: it has success=false or an error message.
C26_ToolFailureSurfaced ==
  /\ (obs.lastNode = "execute_tools" /\ Len(state.tool_calls) > 0
        /\ ~state.tool_calls[Len(state.tool_calls)].success) =>
       /\ pc = "plan"
       /\ state.error # None
       /\ Val(state.error).tool = state.tool_calls[Len(state.tool_calls)].tool
  /\ (pc = "returned" /\ FailedToolCalls(state) # {}) =>
       (~Val(response).success \/ "error" \in Val(response).keys)

(* ------------------------------------------------------------------ *)
(* _detect_followup                                                     *)
(* ------------------------------------------------------------------ *)
\* an utterance is the sequence of its words; the vocabulary is the one
\* _load_domain_vocabulary falls back to
entity_keywords == { "data", "records", "metric", "metrics" }
dimension_keywords == { "category", "type", "group" }

\* the words of the utterances below in which a follow-up keyword occurs
\* ("by", "for", "also"), and the keyword "show me"
has_keywords(u) ==
  \/ \E i \in 1..Len(u) : u[i] \in { "by", "for", "also" }
  \/ \E i \in 1..(Len(u) - 1) : u[i] = "show" /\ u[i+1] = "me"

\* word_count <= 4
is_short(u) == Len(u) <= 4

has_entity(u) == \E i \in 1..Len(u) : u[i] \in entity_keywords

\* "list all", "show all", "show me all" (of complete_action_keywords)
has_complete_action(u) ==
  \/ \E i \in 1..(Len(u) - 1) : u[i] \in { "list", "show" } /\ u[i+1] = "all"
  \/ \E i \in 1..(Len(u) - 2) : u[i] = "show" /\ u[i+1] = "me" /\ u[i+2] = "all"

\* "by <dim>" or "for <dim>"
has_dimension_modifier(u) ==
  \E i \in 1..(Len(u) - 1) : u[i] \in { "by", "for" } /\ u[i+1] \in dimension_keywords

\* mutant: no branch for complete action phrases
followup_score_noAction(dim, act, kw, short, ent) ==
  IF dim THEN [ is_followup |-> TRUE, confidence |-> 85 ]
  ELSE IF kw /\ short /\ ~ent THEN [ is_followup |-> TRUE, confidence |-> 90 ]
  ELSE IF kw /\ short /\ ent THEN [ is_followup |-> FALSE, confidence |-> 70 ]
  ELSE IF kw /\ ~ent THEN [ is_followup |-> TRUE, confidence |-> 70 ]
  ELSE IF short /\ ~ent THEN [ is_followup |-> TRUE, confidence |-> 60 ]
  ELSE [ is_followup |-> FALSE, confidence |-> 80 ]

\* mutant: complete action phrases are tested before dimension modifiers
followup_score_actionFirst(dim, act, kw, short, ent) ==
  IF act THEN [ is_followup |-> FALSE, confidence |-> 90 ]
  ELSE IF dim THEN [ is_followup |-> TRUE, confidence |-> 85 ]
  ELSE IF kw /\ short /\ ~ent THEN [ is_followup |-> TRUE, confidence |-> 90 ]
  ELSE IF kw /\ short /\ ent THEN [ is_followup |-> FALSE, confidence |-> 70 ]
  ELSE IF kw /\ ~ent THEN [ is_followup |-> TRUE, confidence |-> 70 ]
  ELSE IF short /\ ~ent THEN [ is_followup |-> TRUE, confidence |-> 60 ]
  ELSE [ is_followup |-> FALSE, confidence |-> 80 ]

\* the scoring logic; confidence in hundredths
followup_score(dim, act, kw, short, ent) ==
  IF dim THEN [ is_followup |-> TRUE, confidence |-> 85 ]
  ELSE IF act THEN [ is_followup |-> FALSE, confidence |-> 90 ]
  ELSE IF kw /\ short /\ ~ent THEN [ is_followup |-> TRUE, confidence |-> 90 ]
  ELSE IF kw /\ short /\ ent THEN [ is_followup |-> FALSE, confidence |-> 70 ]
  ELSE IF kw /\ ~ent THEN [ is_followup |-> TRUE, confidence |-> 70 ]
  ELSE IF short /\ ~ent THEN [ is_followup |-> TRUE, confidence |-> 60 ]
  ELSE [ is_followup |-> FALSE, confidence |-> 80 ]

detect_followup(u, hist) ==
  IF hist = << >> THEN [ is_followup |-> FALSE, confidence |-> 100 ]
  ELSE followup_score(has_dimension_modifier(u), has_complete_action(u),
                      has_keywords(u), is_short(u), has_entity(u))

FollowupUtterances ==
  { act \o ent \o kw \o dim \o pad :
      act \in { << >>, << "show", "all" >>, << "list", "all" >>, << "show", "me", "all" >> },
      ent \in { << >>, << "records" >> },
      kw \in { << >>, << "also" >> },
      dim \in { << >>, << "by", "category" >>, << "for", "type" >> },
      pad \in { << >>, << "please", "quickly", "today" >> } } \ { << >> }

FollowupHistories ==
  { << >>,
    << [ user_query |-> << "show", "all", "records" >> ] >>,
    << [ user_query |-> << "show", "all", "records" >> ],
       [ user_query |-> << "by", "category" >> ] >> }

FollowupInit ==
  \E u \in FollowupUtterances, hist \in FollowupHistories :
    /\ state = [ user_query |-> u, chat_history |-> hist ]
    /\ pc = "detect_followup"
    /\ response = None
    /\ chat_sessions = << >>
    /\ obs = InitialObs

DetectFollowup ==
  /\ pc = "detect_followup"
  /\ response' = Some(detect_followup(state.user_query, state.chat_history))
  /\ pc' = "followup_detected"
  /\ UNCHANGED << state, chat_sessions, obs >>

FollowupSpec == FollowupInit /\ [][DetectFollowup]_vars

\* C29: an utterance containing a complete action phrase is classified as not
\* a follow-up, whatever the other signals (dimension qualifier included) and
\* the history are.
C29_CompleteActionStandalone ==
  (pc = "followup_detected" /\ has_complete_action(state.user_query)) =>
    ~Val(response).is_followup

\* C29 as it holds: an utterance containing a complete action phrase and no
\* dimension qualifier is classified as not a follow-up, whatever the keyword,
\* short and entity signals and the history are.
C29_CompleteActionStandaloneNoQualifier ==
  (pc = "followup_detected" /\ has_complete_action(state.user_query)
     /\ ~has_dimension_modifier(state.user_query)) =>
    ~Val(response).is_followup

\* "show all also" after one turn: keyword, short, no entity, yet standalone
C29_Witness ==
  /\ pc = "followup_detected"
  /\ state.user_query = << "show", "all", "also" >>
  /\ Len(state.chat_history) = 1
  /\ ~Val(response).is_followup

\* C30: with history, an utterance containing a dimension qualifier is
\* classified as a follow-up whatever the other signals are; with no history
\* every utterance is classified as not a follow-up.
C30_QualifierFollowup ==
  pc = "followup_detected" =>
    /\ (state.chat_history # << >> /\ has_dimension_modifier(state.user_query))
         => Val(response).is_followup
    /\ state.chat_history = << >> => ~Val(response).is_followup

\* a long utterance with a complete action phrase, an entity word and a
\* qualifier, after one turn: a follow-up
C30_Witness ==
  /\ pc = "followup_detected"
  /\ state.user_query = << "show", "all", "records", "by", "category",
                          "please", "quickly", "today" >>
  /\ state.chat_history # << >>
  /\ Val(response).is_followup

(* ------------------------------------------------------------------ *)
(* _expand_query_with_context                                           *)
(* ------------------------------------------------------------------ *)
\* a text is the sequence of its words; the two clarification markers, the
\* full stop and the double quote are words of their own
MarkerInformation == "Additional information:"
MarkerContext == "Additional context:"
FullStop == "."
Quote == "\""

\* calls of the expansion in a row, each on the result of the one before
MaxRounds == 2

\* chat_history[-5:]
RecentTurns == 5

\* str.lower() on one word of a text
lower(t) ==
  CASE t = "WHERE" -> "where"
    [] t = "SELECT" -> "select"
    [] t = "FROM" -> "from"
    [] t = "GROUP BY" -> "group by"
    [] t = "Show" -> "show"
    [] OTHER -> t

\* generate_sql_with_agent: is_clarified_query
is_clarified_query(u) == FindTok(u, MarkerInformation) # 0 \/ FindTok(u, MarkerContext) # 0

\* the marker the utterance is split at: "Additional information:" first
split_marker(u) == IF FindTok(u, MarkerInformation) # 0 THEN MarkerInformation ELSE MarkerContext

RECURSIVE rstrip_dots(_)
rstrip_dots(t) ==
  IF t # << >> /\ t[Len(t)] = FullStop THEN rstrip_dots(Slice(t, 1, Len(t) - 1)) ELSE t

action_words ==
  { "show", "list", "display", "get", "find", "compare", "analyze", "need", "want", "see" }

has_action_in_clarification(c) == \E i \in 1..Len(c) : lower(c[i]) \in action_words

\* the clarified utterance with the marker folded in
combined_query(u) ==
  LET p == FindTok(u, split_marker(u))
      original == rstrip_dots(Slice(u, 1, p - 1))
      clarification == Slice(u, p + 1, Len(u))
  IN IF has_action_in_clarification(clarification) THEN clarification
     ELSE original \o clarification

\* user_query as the rest of the function sees it
effective_query(u, is_clarified) ==
  IF is_clarified /\ is_clarified_query(u) THEN combined_query(u) ELSE u

recent_history(h) ==
  IF Len(h) > RecentTurns THEN SubSeq(h, Len(h) - RecentTurns + 1, Len(h)) ELSE h

previous_queries(h) == [ i \in 1..Len(recent_history(h)) |-> recent_history(h)[i].user_query ]

\* expanded_query[1:-1] when the text starts and ends with a double quote
strip_quotes(t) ==
  IF t # << >> /\ t[1] = Quote /\ t[Len(t)] = Quote THEN Slice(t, 2, Len(t) - 1) ELSE t

\* mutant: the indicators are searched in the text as written
is_sql_fragment_asWritten(t) ==
  \E i \in 1..Len(t) :
    \/ t[i] \in { "where", "select", "from", "join", "limit" } /\ i < Len(t)
    \/ t[i] \in { "group by", "order by" }
    \/ t[i] \in { "corp_id", "client_id" } /\ i < Len(t) /\ t[i+1] = "="

\* any(indicator.lower() in expanded_query.lower()): "where ", "select ",
\* "from ", "join ", "limit " need a following blank, "group by" and
\* "order by" do not, "corp_id =" and "client_id =" need the blank and the sign
is_sql_fragment(t) ==
  \E i \in 1..Len(t) :
    \/ lower(t[i]) \in { "where", "select", "from", "join", "limit" } /\ i < Len(t)
    \/ lower(t[i]) \in { "group by", "order by" }
    \/ lower(t[i]) \in { "corp_id", "client_id" } /\ i < Len(t) /\ t[i+1] = "="

\* the collaborator: it answers with a text or the call raises
LlmTexts(q, h) ==
  { q,
    << Quote >> \o q \o << Quote >>,
    q \o << "in", "2023" >>,
    << "WHERE", "corp_id", "=", "105" >>,
    << "select", "*", "from", "sales" >>,
    << "Show", "sales", "GROUP BY", "region" >>,
    << "SELECT" >> }
  \cup (IF h # << >> THEN { h[Len(h)].user_query \o q } ELSE {})

\* the try block: the answer of the collaborator, unquoted and guarded
guarded_expansion(text, q, h) ==
  LET expanded == strip_quotes(text)
  IN IF is_sql_fragment(expanded)
     THEN IF previous_queries(h) # << >>
          THEN previous_queries(h)[Len(previous_queries(h))] \o q
          ELSE q
     ELSE expanded

ExpandUtterances ==
  { << "by", "region" >>,
    << "Show", "all", "records" >>,
    << "Show", "sales", FullStop, MarkerInformation, "for", "Q4", "2023" >>,
    << "trend", FullStop, MarkerInformation, "show", "revenue", "by", "region" >>,
    << "Show", "sales", FullStop, MarkerContext, "for", "Q4", "2023" >> }

ExpandHistories ==
  LET first == [ user_query |-> << "Show", "sales", "in", "2023" >> ]
      second == [ user_query |-> << "by", "region" >> ]
  IN { << >>, << first >>, << first, second >>,
       << second, second, second, second, second, first >> }

ExpandInit ==
  \E u \in ExpandUtterances, h \in ExpandHistories :
    /\ state = [ user_query |-> u, chat_history |-> h, round |-> 0 ]
    /\ pc = "expand"
    /\ response = None
    /\ chat_sessions = << >>
    /\ obs = [ input |-> << >>, outcome |-> [ kind |-> "none" ] ]

\* the bookkeeping of one call: its result is the utterance of the next call
Expanded(result, outcome) ==
  /\ response' = Some(result)
  /\ state' = [ state EXCEPT !.user_query = result, !.round = @ + 1 ]
  /\ obs' = [ input |-> state.user_query, outcome |-> outcome ]
  /\ pc' = IF state.round + 1 < MaxRounds THEN "expand" ELSE "expanded"
  /\ UNCHANGED chat_sessions

\* no history: the query is used as it is, the collaborator is not called
ExpandNoHistory ==
  /\ pc = "expand"
  /\ state.chat_history = << >>
  /\ Expanded(effective_query(state.user_query, is_clarified_query(state.user_query)),
              [ kind |-> "not called" ])

\* the collaborator answers
ExpandAnswers ==
  /\ pc = "expand"
  /\ state.chat_history # << >>
  /\ LET q == effective_query(state.user_query, is_clarified_query(state.user_query))
     IN \E text \in LlmTexts(q, state.chat_history) :
          Expanded(guarded_expansion(text, q, state.chat_history),
                   [ kind |-> "text", text |-> text ])

\* the call of the collaborator raises
ExpandRaises ==
  /\ pc = "expand"
  /\ state.chat_history # << >>
  /\ Expanded(effective_query(state.user_query, is_clarified_query(state.user_query)),
              [ kind |-> "raises" ])

ExpandNext == ExpandNoHistory \/ ExpandAnswers \/ ExpandRaises

ExpandSpec == ExpandInit /\ [][ExpandNext]_vars

ExpansionReturned == obs.outcome.kind # "none"

\* a complete query that does not depend on the history
CompleteQueries == { << "Show", "all", "records" >> }

\* C27: expanding an already-complete, history-independent query returns it
\* unchanged, whatever the history is and whatever the collaborator does, and
\* so does expanding the result again.
C27_ExpansionIdempotent ==
  (ExpansionReturned /\ obs.input \in CompleteQueries) => Val(response) = obs.input

\* the words the guard is after, in upper and lower case
SqlClauseTokens ==
  { "WHERE", "where", "SELECT", "select", "FROM", "from", "JOIN", "join",
    "GROUP BY", "group by", "ORDER BY", "order by", "LIMIT", "limit" }

ContainsSqlClauseToken(t) == \E i \in 1..Len(t) : t[i] \in SqlClauseTokens

\* the text without the double quotes around it
Unquoted(t) ==
  IF Len(t) >= 2 /\ t[1] = Quote /\ t[Len(t)] = Quote THEN SubSeq(t, 2, Len(t) - 1) ELSE t

\* a clause token with text after it, or GROUP BY / ORDER BY anywhere, in the
\* unquoted text
ContainsSqlClause(t) ==
  \E i \in 1..Len(Unquoted(t)) :
    /\ Unquoted(t)[i] \in SqlClauseTokens
    /\ \/ i < Len(Unquoted(t))
       \/ Unquoted(t)[i] \in { "GROUP BY", "group by", "ORDER BY", "order by" }

LastQuery == state.chat_history[Len(state.chat_history)].user_query

Folded(u) ==
  IF \E i \in 1..Len(u) : u[i] \in { MarkerInformation, MarkerContext }
  THEN LET p == CHOOSE i \in 1..Len(u) :
                  /\ u[i] \in { MarkerInformation, MarkerContext }
                  /\ \A j \in 1..(i-1) : u[j] \notin { MarkerInformation, MarkerContext }
           before == Slice(u, 1, p - 1)
           head == IF before # << >> /\ before[Len(before)] = FullStop
                   THEN Slice(before, 1, Len(before) - 1) ELSE before
           rest == Slice(u, p + 1, Len(u))
       IN IF \E i \in 1..Len(rest) : rest[i] \in { "show", "Show" } THEN rest
          ELSE head \o rest
  ELSE u

Returned == pc = "returned"

C32_IterationMonotonic ==
  /\ [](pc = "detect_clarification" => state.iteration = 0)
  /\ [][ /\ pc = "plan" => state'.iteration = state.iteration + 1
         /\ pc # "plan" => state'.iteration = state.iteration ]_vars
  /\ [](/\ state.iteration = obs.planPasses
        /\ state.iteration <= state.max_iterations + 1
        /\ obs.actionPasses <= state.max_iterations
        /\ (Returned /\ ~Val(response).needs_clarification)
             => Val(response).iterations = state.iteration)

\* a run that used its whole budget reports max_iterations + 1
C32_Witness ==
  /\ Returned
  /\ state.max_iterations = 3
  /\ Val(response).iterations = 4
  /\ obs.actionPasses = 3
  /\ state.execution_result # None

\* C33: in every state of a run a non-null SQL comes with a schema, an
\* execution result with SQL, a validation result with an execution result, a
\* reflection result with a validation result, and an explanation with
\* reflection and execution results.
C33_ArtifactOrder ==
  /\ state.sql_query # None => state.schema # None
  /\ state.execution_result # None => state.sql_query # None
  /\ state.validation_result # None => state.execution_result # None
  /\ state.reflection_result # None => state.validation_result # None
  /\ state.explanation # None =>
       state.reflection_result # None /\ state.execution_result # None

\* all six artifacts are there
C33_Witness ==
  /\ pc = "plan"
  /\ obs.lastNode = "generate_explanation"
  /\ AllArtifacts(state)

\* the reflection never asks for a retry
NoRefine ==
  state.reflection_result # None => ~Val(state.reflection_result).should_refine

\* the artifacts in the order in which the decision tree of _plan_node asks for them
ArtifactList(st) ==
  << st.schema, st.sql_query, st.execution_result, st.validation_result,
     st.reflection_result, st.explanation >>

\* the step the decision tree chooses for each missing artifact
ActionList ==
  << "get_schema", "generate_sql", "execute_sql", "validate_results", "reflect",
     "generate_explanation" >>

\* exactly the first k artifacts are there
FirstProduced(st, k) ==
  \A i \in 1..Len(ArtifactList(st)) : (ArtifactList(st)[i] # None) <=> (i <= k)

\* no collaborator has failed so far and no clarification was asked for
SuccessRun ==
  /\ ~state.clarification_needed
  /\ state.error = None
  /\ ~obs.genFailed /\ ~obs.secFailed
  /\ \A i \in 1..Len(state.tool_calls) : state.tool_calls[i].success
  /\ obs.explain # "raises"

ActionSteps == { "execute_tools", "generate_sql", "reflect", "generate_explanation" }

\* C34: in a run where every collaborator succeeds and no clarification is
\* needed, the k-th Plan pass chooses the k-th of schema, generate, execute,
\* validate, reflect, explain and that step produces the k-th artifact; the
\* response holds an explanation iff max_iterations >= 6, the decision tree
\* (and not the budget guard) chooses complete iff max_iterations >= 7, and
\* with max_iterations = 3 the run ends with schema, SQL and execution result
\* and without validation, reflection and explanation.
C34_SuccessPathOrder ==
  SuccessRun =>
    /\ pc = "plan" => FirstProduced(state, state.iteration)
    /\ pc \in ActionSteps =>
         /\ state.iteration <= Len(ActionList)
         /\ state.next_action = ActionList[state.iteration]
         /\ FirstProduced(state, state.iteration - 1)
    /\ Returned =>
         LET r == Val(response)
             n == state.max_iterations
         IN /\ FirstProduced(state, IF n < 6 THEN n ELSE 6)
            /\ (r.explanation # None) <=> (n >= 6)
            /\ ~BudgetExceeded(state.iteration, n) <=> (n >= 7)
            /\ n = 3 => /\ state.schema # None /\ r.sql # None /\ r.results # None
                        /\ r.validation = None /\ r.reflection = None
                        /\ r.explanation = None

\* a run of seven Plan passes in which the tree chooses complete
C34_Witness ==
  /\ Returned /\ SuccessRun
  /\ state.max_iterations = 7 /\ state.iteration = 7
  /\ Val(response).explanation = Some(LlmText)

C34_WitnessDefault ==
  /\ Returned /\ SuccessRun /\ state.max_iterations = 3 /\ Val(response).results # None

\* C35: Reflect runs only while there is no reflection result and sets one;
\* once set the reflection result never changes, the reset of the retry path
\* keeps it too, and neither before nor after that reset does the decision
\* tree ask for another reflection. Hence one Reflect step, and with it one
\* retry, per run at most.
C35_ReflectOnce ==
  /\ [][ pc = "reflect" =>
           state.reflection_result = None /\ state'.reflection_result # None ]_vars
  /\ [][ state.reflection_result # None =>
           state'.reflection_result = state.reflection_result ]_vars
  /\ [](state.reflection_result # None =>
          /\ refine_reset(state).reflection_result = state.reflection_result
          /\ PlanDecision(state) # "reflect"
          /\ PlanDecision(refine_reset(state)) = "generate_sql")

\* a run that went on after its reflection and reported it
C35_Witness ==
  /\ Returned
  /\ Val(response).reflection # None
  /\ obs.planPasses > 5

\* C36: when the execution succeeded and returned at least one row, the
\* reflection result is acceptable, asks for no retry and lists no issues.
C36_RowsMeanNoIssues ==
  (/\ state.reflection_result # None
   /\ state.execution_result # None
   /\ Val(state.execution_result).results > 0)
  => LET r == Val(state.reflection_result)
     IN r.is_acceptable /\ ~r.should_refine /\ r.issues = << >>

NoDuplicates(q) == \A i, j \in 1..Len(q) : q[i] = q[j] => i = j

\* C37: whatever signals a first-in-session utterance carries, the list of
\* clarification questions holds no question twice.
C37_NoDuplicateQuestions ==
  (Detected /\ FirstInSession) => NoDuplicates(state.clarification_questions)

(* ------------------------------------------------------------------ *)
(* A whole run on every combination of the detector's signals           *)
(* ------------------------------------------------------------------ *)
\* generate_sql_with_agent with max_iterations = 1: the detector, then either
\* the clarification response or one tool call and the response
DetectorRunNext ==
  \/ DetectClarification
  \/ Plan
  \/ GetSchema
  \/ Complete
  \/ Return

DetectorRunSpec == DetectorInit /\ [][DetectorRunNext]_vars

\* C38: an utterance that carries a clarification marker is never answered
\* with a clarification request, whatever else it contains and whether or
\* not its session has history: the detector leaves clarification_needed
\* false and routes to Plan, and the response has needs_clarification false.
C38_ClarifiedNeverAsked ==
  state.user_query.clarified =>
    /\ ~state.clarification_needed
    /\ state.clarification_questions = << >>
    /\ Detected => pc = "plan"
    /\ Returned => /\ ~Val(response).needs_clarification
                   /\ "needs_clarification" \notin Val(response).keys

\* a marked first-in-session utterance the detector would have asked about
C38_Witness ==
  /\ Returned
  /\ state.user_query.clarified
  /\ FirstInSession
  /\ detect_questions(state.resolved_query, 0) # << >>

\* the same in a session with history
C38_WitnessHistory ==
  /\ Returned
  /\ state.user_query.clarified
  /\ ~FirstInSession
  /\ detect_questions(state.resolved_query, 1) # << >>

\* C39: the Generate-Explanation step always goes back to Plan with a
\* non-null explanation and changes nothing else of the state, the error
\* included: the fixed no-results text, without a call of the collaborator,
\* for an empty result; the fallback with the row count when the collaborator
\* raises; the collaborator's text otherwise. The Plan pass that follows
\* chooses complete.
C39_ExplanationNeverFails ==
  [][ pc = "generate_explanation" =>
        LET er == state.execution_result
        IN /\ pc' = "plan"
           /\ state'.explanation # None
           /\ state' = [ state EXCEPT !.explanation = state'.explanation ]
           /\ state'.error = state.error
           /\ EmptyResults(er) => /\ state'.explanation = Some(NoResultsText)
                                  /\ obs'.explain = "not_called"
           /\ ~EmptyResults(er) =>
                /\ obs'.explain \in ExplainOutcomes
                /\ obs'.explain = "raises" =>
                     state'.explanation = Some(FallbackText(Val(er).results))
                /\ obs'.explain = "answers" => state'.explanation = Some(LlmText)
           /\ plan_node(state').next_action = "complete"
           /\ should_execute_or_generate(plan_node(state')) = "complete" ]_vars

\* the collaborator raised on a result with rows and the run went on to complete
C39_Witness ==
  /\ pc = "complete"
  /\ obs.explain = "raises"
  /\ state.explanation = Some(FallbackText(Val(state.execution_result).results))
  /\ state.error = None

\* the empty result set
C39_WitnessEmpty ==
  /\ pc = "complete"
  /\ obs.explain = "not_called"
  /\ state.explanation = Some(NoResultsText)

====
